---- MODULE Spec2Model ----
(***************************************************************************)
(* pepe: HTTP load generator.  Model of the dispatch engine (main.rs: run  *)
(* and the control loop of main) and of the streaming aggregator           *)
(* (ui.rs: Dashboard), of the plan of a Config (config/lib.rs) and of the  *)
(* test-tree view (file_ui.rs).                                            *)
(*                                                                         *)
(* Tasks of the tokio runtime are modelled as processes that interleave:   *)
(*   - the control loop of main (main thread), which also runs the         *)
(*     dashboard loop synchronously;                                       *)
(*   - per run, the outer task `async move { run(..).await }`;             *)
(*   - per run, the supervising task spawned inside run();                 *)
(*   - per run and per request, one unit of work.                          *)
(***************************************************************************)
EXTENDS Integers, Sequences, FiniteSets, TLC

\* ---------------------------------------------------------------- bounds
MaxN == 2            \* largest args.number explored by Spec
MaxRuns == 2         \* largest number of dispatch runs launched by main's loop
MaxWork == 2         \* largest args.number * (number of runs) of one behaviour
MaxCliN == 1         \* largest --number explored by SpecCli
MaxOptions == 2      \* SpecCli: options given on the command line besides -n and -c
MaxDnsN == 1         \* largest args.number explored by SpecDns
MaxPresent == 2      \* SpecCache: cache headers present in one response
MaxHist == 5         \* SpecHist: completion records fed to the dashboard
MaxTests == 3        \* SpecPlan, SpecTree: tests of one Config
MaxStats == 3        \* SpecRate: completion records fed to the dashboard
MaxFrameN == 2       \* SpecFrames: args.number, the records of the run
MaxLabels == 12      \* SpecFrames: no frame is drawn once label_storage holds this many
MaxIndex == 2        \* SpecTree: Down is not pressed once the selected index is this large
MaxSecs == 2         \* SpecRate: whole seconds that pass while the dashboard runs
MaxRecords == 104    \* completion records fed to the aggregator by SpecAgg
StreamPeriod == 3    \* SpecAgg: the first StreamPeriod records are free, the rest repeat them

\* ------------------------------------------------------ program constants
LogCap == 100        \* ui.rs: `if self.requests.len() == 100`
PreviewLen == 100    \* main.rs: `if text.len() > 100 { text[..100].to_string() }`
U64_MAX == 2147483647  \* ui.rs: `as u64` of +inf saturates at u64::MAX; the largest
                       \* 32-bit integer stands for it

\* Option<T>: None is the empty sequence, Some(x) the one-element sequence.
None == <<>>
Some(x) == <<x>>

Runs == 0 .. (MaxRuns - 1)
Units == 1 .. MaxN

\* Outcomes of one HTTP request in Spec: status_code of the ResponseStats built
\* from Ok(resp) (Some(status)) or Err(e) (e.status(), None for transport errors
\* and timeouts).
Outcomes == {None, Some(200), Some(404)}

\* Response bodies after trim and replace, by what the truncation reads of them:
\* the length in bytes and whether byte PreviewLen is a char boundary.
Bodies ==
    {[len |-> 0, boundary |-> TRUE],
     [len |-> 101, boundary |-> TRUE],
     [len |-> 101, boundary |-> FALSE]}

\* main.rs 415-416: `text[..100]` panics when byte 100 is inside a character
TruncatePanics(body) == body.len > PreviewLen /\ ~body.boundary

\* status_code values fed to the aggregator by SpecAgg (edges of the 2xx range).
AggOutcomes == {None, Some(199), Some(200), Some(299), Some(300)}

VARIABLES
    config,    \* the tests of the Config read from a YAML file (none given: <<>>)
    plan,      \* the result of Config::build_execution_plan, None before the call
    printed,   \* the lines printed by Config::display_execution_plan, None before the call
    tree,      \* the TestTree of the test-tree view (file_ui.rs), None when there is none
    args,      \* the Args of main
    ctl,       \* main: "parsed" (Args::parse returned), "exited" (process::exit),
               \* "launch" (top of 'main loop), "dashboard", "stopped" (main returned)
    restarts,  \* environment: how many more r / i keys the user will press
    polled,    \* the key event read by the last poll of Dashboard::run, "none"
               \* when the poll timed out and at the top of the loop
    key,       \* `result` of the current loop iteration: the KeyCode returned by
               \* Dashboard::run ("none" while dashboard.run has not returned)
    gen,       \* number of dispatch runs launched so far; the current run is gen - 1
    outer,     \* per run: the task spawned at main.rs 482
    sup,       \* per run: the supervising task spawned at main.rs 363: [pc, i]
    permits,   \* per run: available permits of the run's semaphore
    unit,      \* per run, per unit: [pc, res, req]: position, outcome of the
               \* request, the request put on the wire
    trace,     \* per run, per unit: the events the unit has performed, in order
    rx,        \* completion-record channel of the current run (queued records)
    sent_rx,   \* sent-event channel of the current run (number of queued Sent{count:1})
    dpc,       \* position in the loop of Dashboard::run: "rx", "sent", "draw"
    dash,      \* the Dashboard of the current run (Stats, requests, histogram)
    arrived    \* every record handed to update_stats by the current Dashboard, in order

vars == <<config, plan, printed, tree, args, restarts, ctl, polled, key, gen, outer, sup, permits, unit, trace, rx, sent_rx, dpc, dash, arrived>>

\* ---------------------------------------------------------------- DNS probe

\* The URLs explored by SpecDns: one that names a host that resolves (as "cdn"
\* does), one that hyper's Uri refuses (a space), one that Uri accepts without a
\* host (a path), and one whose host the probe's lookup does not find.
Urls == {"u", "h t", "/p", "down"}

\* main.rs 206: Uri::from_str(url) is Ok
Uri_from_str(url) == url # "h t"

\* main.rs 207: uri.host()
host(url) == IF url = "/p" THEN None ELSE Some(url)

\* main.rs 210: tokio::net::lookup_host(host:0) is Ok
lookup_host(h) == h # "down"

\* main.rs 205-227: Some(<<lookup, resolution>>) in milliseconds for Ok, None
\* for Err
resolve_dns(url) ==
    IF ~Uri_from_str(url) THEN None
    ELSE IF host(url) = None THEN None
    ELSE IF ~lookup_host(host(url)[1]) THEN None
    ELSE Some(<<2, 0>>)

\* main.rs 388: Result::unwrap_or_default on a pair of Durations
unwrap_or_default(x) == IF x = None THEN <<0, 0>> ELSE x[1]

\* Mutant of RecordDnsTimes: the record of an Ok(resp) carries no DNS times
RecordDnsTimesOnError(status_code, dns_times) ==
    IF status_code = None THEN Some(dns_times) ELSE None

\* main.rs 426, 440: the dns_times of the ResponseStats, in both arms
RecordDnsTimes(status_code, dns_times) == Some(dns_times)

\* ------------------------------------------------------- cache classifier

\* main.rs 281-289, cache.rs 4-12: the cache headers, in the order they are read
CACHE_HEADERS ==
    <<"x-cache", "x-cache-status", "cf-cache-status", "x-cache-lookup",
      "x-cdn-cache-status", "x-backend-cache-status", "x-vercel-cache">>

\* Header names of the responses explored: the cache headers and one other
HeaderNames == {CACHE_HEADERS[k] : k \in 1 .. Len(CACHE_HEADERS)} \cup {"content-type"}

\* Header values are sequences of characters; "OBS" stands for a byte above 127
\* (legal in a HeaderValue, refused by HeaderValue::to_str).
HeaderValues ==
    {<<"H", "I", "T">>,
     <<"M", "i", "s", "s">>,
     <<"S", "T", "A", "L", "E">>,
     <<"e", "x", "p", "i", "r", "e", "d">>,
     <<"R", "e", "v", "a", "l", "i", "d", "a", "t", "e", "d">>,
     <<"B", "Y", "P", "A", "S", "S">>,
     <<"d", "y", "n", "a", "m", "i", "c">>,
     <<"E", "r", "r", "o", "r">>,
     <<"h", "i", "t", "s">>,
     <<"h", "i", "t", "OBS">>}

\* The header map of a response with the cache headers of S set to f
HeaderMapOf(S, f) ==
    [n \in HeaderNames |->
        IF n \in S THEN Some(f[n])
        ELSE IF n = "content-type" THEN Some(<<"t">>) ELSE None]

\* Header maps with at most m cache headers
HeaderMaps(m) ==
    UNION {{HeaderMapOf(S, f) : f \in [S -> HeaderValues]}
            : S \in {T \in SUBSET (HeaderNames \ {"content-type"}) :
                        Cardinality(T) <= m}}

\* A response without any cache header
NoCacheHeaders == HeaderMapOf({}, <<>>)

\* The default HeaderMap (no response)
EmptyHeaders == [n \in HeaderNames |-> None]

\* HeaderValue::to_str: Ok only when every byte is visible ASCII
to_str(v) == IF \A k \in 1 .. Len(v) : v[k] # "OBS" THEN Some(v) ELSE None

UpperChars == <<"A", "B", "D", "E", "H", "I", "L", "M", "P", "R", "S", "T", "Y">>
LowerChars == <<"a", "b", "d", "e", "h", "i", "l", "m", "p", "r", "s", "t", "y">>

\* str::to_lowercase, character by character
to_lowercase(s) ==
    [k \in 1 .. Len(s) |->
        IF \E j \in 1 .. Len(UpperChars) : UpperChars[j] = s[k]
        THEN LowerChars[CHOOSE j \in 1 .. Len(UpperChars) : UpperChars[j] = s[k]]
        ELSE s[k]]

\* CacheStatus::from_str
from_str(status) ==
    LET w == to_lowercase(status)
    IN  CASE w = <<"h", "i", "t">> -> "Hit"
          [] w = <<"m", "i", "s", "s">> -> "Miss"
          [] w = <<"s", "t", "a", "l", "e">> -> "Stale"
          [] w = <<"e", "x", "p", "i", "r", "e", "d">> -> "Expired"
          [] w = <<"r", "e", "v", "a", "l", "i", "d", "a", "t", "e", "d">> -> "Revalidated"
          [] w = <<"b", "y", "p", "a", "s", "s">> -> "Bypass"
          [] w = <<"d", "y", "n", "a", "m", "i", "c">> -> "Dynamic"
          [] w = <<"e", "r", "r", "o", "r">> -> "Error"
          [] OTHER -> "Unknown"

\* parse_cache_status, from the k-th cache header on: the first header that is
\* present and whose value to_str accepts decides
RECURSIVE parse_from(_, _)
parse_from(headers, k) ==
    IF k > Len(CACHE_HEADERS) THEN None
    ELSE LET value == headers[CACHE_HEADERS[k]]
         IN  IF value # None /\ to_str(value[1]) # None
             THEN Some(from_str(to_str(value[1])[1]))
             ELSE parse_from(headers, k + 1)

\* main.rs 280-300
parse_cache_status(headers) == parse_from(headers, 1)

\* The variants of CacheStatus
CacheStatuses ==
    {"Hit", "Miss", "Stale", "Expired", "Revalidated", "Bypass", "Dynamic",
     "Error", "Unknown"}

\* Mutant of from_cache_status: Stale counts as a miss
from_cache_status_stale_miss(status) ==
    CASE status \in {"Hit", "Revalidated"} -> "Hit"
      [] status \in {"Miss", "Expired", "Bypass", "Dynamic", "Stale"} -> "Miss"
      [] status \in {"Error", "Unknown"} -> "Unknown"

\* CacheCategory::from_cache_status
from_cache_status(status) ==
    CASE status \in {"Hit", "Revalidated", "Stale"} -> "Hit"
      [] status \in {"Miss", "Expired", "Bypass", "Dynamic"} -> "Miss"
      [] status \in {"Error", "Unknown"} -> "Unknown"

\* The replies a server may give to one request: status_code (None when the
\* request fails), body, response headers (the default map when the request
\* fails) and the milliseconds the unit measures.  The server at "u" sends no
\* cache header; the server at "cdn" answers 200 with at most MaxPresent cache headers.
\* content_length is resp.content_length() of an Ok(resp): the server at "cdn"
\* declares the length of its (empty) bodies, the others stream theirs and
\* declare none.  A URL that reqwest cannot parse makes send() fail before anything is sent.
Replies(url) ==
    IF url = "cdn"
    THEN {[status_code |-> Some(200), body |-> [len |-> 0, boundary |-> TRUE],
           content_length |-> Some(0),
           headers |-> h, duration |-> 3] : h \in HeaderMaps(MaxPresent)}
    ELSE {[status_code |-> o, body |-> b,
           content_length |-> None,
           headers |-> IF o = None THEN EmptyHeaders ELSE NoCacheHeaders,
           duration |-> 3] :
                o \in IF Uri_from_str(url) /\ host(url) # None THEN Outcomes ELSE {None},
                b \in Bodies}

\* ------------------------------------------------------------ aggregator

\* Mutant of is_success: no upper end of the 2xx range
is_success_no_upper(code) == code >= 200

\* reqwest StatusCode::is_success: 200 <= code <= 299
is_success(code) == code >= 200 /\ code <= 299

\* The status codes the servers of the model answer with
StatusCodes == {199, 200, 299, 300, 404}

\* Dashboard::new : Stats::default(), empty requests, histogram, chart and
\* status_codes, data_transfer 0.0.  An absent key of cache_categories or of
\* status_codes reads as 0.  secs is `self.elapsed.elapsed().as_secs()`, the
\* whole seconds since the Dashboard was made; final_duration is in whole seconds
\* too.  label_storage, which nothing but the chart being drawn reads, is kept
\* by SpecFrames only.
DashboardNew ==
    [count |-> 0, success |-> 0, failed |-> 0, timeouts |-> 0, sent |-> 0,
     min |-> 0, max |-> 0, avg |-> 0, std_dev |-> 0, rps |-> 0, data |-> 0,
     total_dns_lookup |-> <<>>, total_dns_resolution |-> <<>>,
     avg_dns_lookup |-> 0, avg_dns_resolution |-> 0,
     cache_categories |-> [Hit |-> 0, Miss |-> 0, Unknown |-> 0],
     status_codes |-> [c \in StatusCodes |-> 0],
     data_transfer |-> 0, secs |-> 0,
     requests |-> <<>>, histogram |-> <<>>, bar_chart_data |-> <<>>,
     final_duration |-> None]

\* ui.rs 75-79: evict the oldest entry when the log holds exactly 100, then push
PushRequest(requests, stat) ==
    Append(IF Len(requests) = LogCap THEN Tail(requests) ELSE requests, stat)

\* ui.rs 82-88: count the category of a record that has a cache status
CountCategory(cats, stat) ==
    IF stat.cache_status = None THEN cats
    ELSE [cats EXCEPT ![from_cache_status(stat.cache_status[1])] = @ + 1]

\* ui.rs 105-107: stats.min after a record of ms milliseconds
NewMin(d, ms) == IF d.min = 0 \/ ms < d.min THEN ms ELSE d.min

\* ui.rs 109-111: stats.max after a record of ms milliseconds
NewMax(d, ms) == IF ms > d.max THEN ms ELSE d.max

RECURSIVE Sum(_)
Sum(xs) == IF xs = <<>> THEN 0 ELSE Head(xs) + Sum(Tail(xs))

\* Mutant of UpdateDns: the average of the resolutions is taken over the lookups
UpdateDnsOneList(d, stat) ==
    IF stat.dns_times = None THEN d
    ELSE LET lookups     == Append(d.total_dns_lookup, stat.dns_times[1][1])
             resolutions == Append(d.total_dns_resolution, stat.dns_times[1][2])
         IN  [d EXCEPT !.total_dns_lookup = lookups,
                       !.total_dns_resolution = resolutions,
                       !.avg_dns_lookup = Sum(lookups) \div Len(lookups),
                       !.avg_dns_resolution = Sum(lookups) \div Len(lookups)]

\* ui.rs 90-103: the DNS sample lists and their running averages
UpdateDns(d, stat) ==
    IF stat.dns_times = None THEN d
    ELSE LET lookups     == Append(d.total_dns_lookup, stat.dns_times[1][1])
             resolutions == Append(d.total_dns_resolution, stat.dns_times[1][2])
         IN  [d EXCEPT !.total_dns_lookup = lookups,
                       !.total_dns_resolution = resolutions,
                       !.avg_dns_lookup = Sum(lookups) \div Len(lookups),
                       !.avg_dns_resolution = Sum(resolutions) \div Len(resolutions)]

\* ui.rs 113-117: stats.rps from the count and the whole seconds elapsed; the
\* cast of the f64 quotient to u64 drops the fraction
RequestsPerSecond(count, secs) == IF secs > 0 THEN count \div secs ELSE 0

\* ui.rs 119: stats.data, `(data_transfer / secs as f64) as u64`: the cast of NaN
\* (0.0 / 0.0) is 0, the cast of +inf (x / 0.0) is u64::MAX
BytesPerSecond(data_transfer, secs) ==
    IF secs > 0 THEN data_transfer \div secs
    ELSE IF data_transfer = 0 THEN 0 ELSE U64_MAX

\* Mutant of CountStatus: the bucket is the class of the status code (2xx, 4xx)
CountStatusClass(codes, code) ==
    LET class == (code \div 100) * 100
    IN  IF class \in DOMAIN codes THEN [codes EXCEPT ![class] = @ + 1] ELSE codes

\* ui.rs 132: one more response of that status code
CountStatus(codes, code) == [codes EXCEPT ![code] = @ + 1]

\* ui.rs 133: `stat.content_length.unwrap_or(0)`
unwrap_or(x, default) == IF x = None THEN default ELSE x[1]

\* Mutant of CountRecord: a record without status code is counted at each of
\* its two pushes
CountRecordAtEachPush(d, stat) ==
    IF stat.status_code = None
    THEN [d EXCEPT !.timeouts = @ + 1,
                   !.count = @ + 2,
                   !.requests = Append(@, stat)]
    ELSE [d EXCEPT !.status_codes = CountStatus(@, stat.status_code[1]),
                   !.data_transfer = @ + unwrap_or(stat.content_length, 0),
                   !.count = @ + 1,
                   !.success = IF is_success(stat.status_code[1]) THEN @ + 1 ELSE @,
                   !.failed = IF is_success(stat.status_code[1]) THEN @ ELSE @ + 1]

\* Mutant of CountRecord: a record without status code is not counted
CountRecordStatusOnly(d, stat) ==
    IF stat.status_code = None
    THEN [d EXCEPT !.timeouts = @ + 1,
                   !.requests = Append(@, stat)]
    ELSE [d EXCEPT !.status_codes = CountStatus(@, stat.status_code[1]),
                   !.data_transfer = @ + unwrap_or(stat.content_length, 0),
                   !.count = @ + 1,
                   !.success = IF is_success(stat.status_code[1]) THEN @ + 1 ELSE @,
                   !.failed = IF is_success(stat.status_code[1]) THEN @ ELSE @ + 1]

\* ui.rs 121-141: the counters, the second push of a record without status code
CountRecord(d, stat) ==
    IF stat.status_code = None
    THEN [d EXCEPT !.timeouts = @ + 1,
                   !.count = @ + 1,
                   !.requests = Append(@, stat)]
    ELSE [d EXCEPT !.status_codes = CountStatus(@, stat.status_code[1]),
                   !.data_transfer = @ + unwrap_or(stat.content_length, 0),
                   !.count = @ + 1,
                   !.success = IF is_success(stat.status_code[1]) THEN @ + 1 ELSE @,
                   !.failed = IF is_success(stat.status_code[1]) THEN @ ELSE @ + 1]

\* Dashboard::update_stats
update_stats(d, stat) ==
    LET h    == Append(d.histogram, [status |-> stat.status_code, ms |-> stat.duration])
        reqs == PushRequest(d.requests, stat)
        dns  == UpdateDns(d, stat)
        e    == [dns EXCEPT !.histogram = h,
                            !.cache_categories = CountCategory(@, stat),
                            !.min = NewMin(d, stat.duration),
                            !.max = NewMax(d, stat.duration),
                            !.rps = RequestsPerSecond(d.count, d.secs),
                            !.data = BytesPerSecond(d.data_transfer, d.secs)]
    IN  CountRecord([e EXCEPT !.requests = reqs], stat)

\* slice::sort_unstable on the latencies: insertion into an ascending sequence
RECURSIVE Insert(_, _)
Insert(sorted, x) ==
    IF sorted = <<>> THEN <<x>>
    ELSE IF x <= Head(sorted) THEN <<x>> \o sorted
    ELSE <<Head(sorted)>> \o Insert(Tail(sorted), x)

RECURSIVE sort_unstable(_)
sort_unstable(xs) ==
    IF xs = <<>> THEN <<>> ELSE Insert(sort_unstable(Tail(xs)), Head(xs))

\* ui.rs 296
percentiles == <<0, 10, 25, 50, 75, 90, 95, 99, 100>>

\* ui.rs 305-312: index (from 0) of the percentile p in len sorted latencies;
\* f64::round rounds half away from zero
PercentileIndex(p, len) ==
    IF p = 0 THEN 0
    ELSE IF p = 100 THEN len - 1
    ELSE LET idx == (p * (len - 1) + 50) \div 100
         IN  IF idx < len - 1 THEN idx ELSE len - 1

\* Mutant of Latencies: the latencies are read from the rolling log
LatenciesOfLog(d) == [k \in 1 .. Len(d.requests) |-> d.requests[k].duration]

\* ui.rs 668: the latencies of the whole histogram
Latencies(d) == [k \in 1 .. Len(d.histogram) |-> d.histogram[k].ms]

\* ui.rs 291-326, 667-669: the values of bar_chart_data (the labels are left out)
render_latency_distribution(d) ==
    LET sorted_latencies == sort_unstable(Latencies(d))
    IN  [d EXCEPT !.bar_chart_data =
            IF sorted_latencies # <<>>
            THEN [k \in 1 .. Len(percentiles) |->
                    sorted_latencies[PercentileIndex(percentiles[k],
                                                     Len(sorted_latencies)) + 1]]
            ELSE <<0>>]

\* ui.rs 223: `(variance as f64).sqrt() as u64`, the integer part of the root
sqrt(v) == CHOOSE r \in 0 .. v : r * r <= v /\ (r + 1) * (r + 1) > v

\* ui.rs 215-222: the sum of the squared distances to stats.avg as it is when
\* calculate_stats is entered, divided by stats.count
Variance(d, latencies) ==
    Sum([k \in 1 .. Len(latencies) |->
            (latencies[k] - d.avg) * (latencies[k] - d.avg)]) \div d.count

\* Dashboard::calculate_stats (ui.rs 205-229): std_dev first, then avg
calculate_stats(d, latencies) ==
    IF latencies = <<>> THEN d
    ELSE [d EXCEPT !.std_dev = sqrt(Variance(d, latencies)),
                   !.avg = Sum(latencies) \div d.count]

\* Dashboard::render_charts (ui.rs 667-673): the chart, then the statistics
render_charts(d) == calculate_stats(render_latency_distribution(d), Latencies(d))

\* Mutant of render_progress: the duration is taken at every frame that shows
\* count = number
render_progress_every_frame(d, a) ==
    IF d.count = a.number THEN [d EXCEPT !.final_duration = Some(d.secs)] ELSE d

\* ui.rs 505-507: the first frame drawn with count = number fixes final_duration
\* at the time elapsed since Dashboard::new
render_progress(d, a) ==
    IF d.count = a.number /\ d.final_duration = None
    THEN [d EXCEPT !.final_duration = Some(d.secs)]
    ELSE d

\* Dashboard::render_layout (ui.rs 955-972): of the five parts drawn, those that
\* assign to the Dashboard: render_progress, then render_charts
render_layout(d, a) == render_charts(render_progress(d, a))

\* ui.rs 313-325: `format!("P{:02}: {:.2}s", p, ms)` is pushed to label_storage for
\* each percentile, or "No Data" when there are no latencies; a label is modelled
\* by the percentile and the hundredths of a second it shows
render_latency_labels(d) ==
    LET sorted_latencies == sort_unstable(Latencies(d))
    IN  [d EXCEPT !.label_storage = @ \o
            IF sorted_latencies # <<>>
            THEN [k \in 1 .. Len(percentiles) |->
                    <<"P", percentiles[k],
                      (sorted_latencies[PercentileIndex(percentiles[k],
                                                        Len(sorted_latencies)) + 1] + 5)
                            \div 10>>]
            ELSE <<<<"No Data">>>>]

\* ui.rs 489: `(self.stats.count * 100) / (self.args.number as usize).max(1)`
percent(d, a) == (d.count * 100) \div (IF a.number > 1 THEN a.number ELSE 1)

\* ui.rs 569: `(self.args.number as usize) - self.stats.count`, the Remaining
\* cell of render_stats; a negative value stands for the underflow of the usize
\* subtraction
Remaining(d, a) == a.number - d.count

\* Dashboard::update_sent, applied to n queued Sent { count: 1 }
update_sent(d, n) == [d EXCEPT !.sent = @ + n]

\* `while let Ok(stat) = rx.try_recv() { self.update_stats(stat) }`
RECURSIVE DrainAll(_, _)
DrainAll(d, q) ==
    IF q = <<>> THEN d ELSE DrainAll(update_stats(d, Head(q)), Tail(q))

\* --------------------------------------------------------- configuration

\* Strings the program inspects are sequences of characters.  "DEL" stands for
\* the byte 127, " " for any whitespace; the letters are HTTP token characters.
TokenChars == {"a", "G", "E", "T", "P", "O", "S", "U", "p", "o", "s", "t"}

GET == <<"G", "E", "T">>
POST == <<"P", "O", "S", "T">>
PUT == <<"P", "U", "T">>

\* reqwest::Method::from_bytes is Ok exactly for a non-empty string of token
\* characters (a non-standard token is an extension method)
MethodValid(m) == Len(m) > 0 /\ \A k \in 1 .. Len(m) : m[k] \in TokenChars

\* Values of --method explored
Methods == {GET, POST, PUT, <<"p", "o", "s", "t">>, <<"G", "E", " ", "T">>}

\* Mutant of TimeoutRejected: no upper limit
TimeoutRejectedZeroOnly(t) == t = 0

\* main.rs 102: `self.timeout == 0 || self.timeout > 120`
TimeoutRejected(t) == t = 0 \/ t > 120

\* Values of --timeout explored (20 is the default)
Timeouts == {0, 1, 20, 120, 121}

\* A proxy URL, by the scheme it starts with and whether the rest parses
\* main.rs 152: `starts_with("socks4")`
StartsWithSocks4(p) == p.scheme \in {"socks4", "socks4a"}

\* reqwest::Proxy::all: the URL parses and its scheme is a proxy scheme
ProxyAll(p) == p.parses /\ p.scheme \in {"http", "https", "socks5", "socks5h"}

\* Values of --proxy explored
Proxies ==
    {None,
     Some([scheme |-> "http", parses |-> TRUE]),
     Some([scheme |-> "socks5", parses |-> TRUE]),
     Some([scheme |-> "socks4", parses |-> TRUE]),
     Some([scheme |-> "socks4a", parses |-> TRUE]),
     Some([scheme |-> "ftp", parses |-> TRUE]),
     Some([scheme |-> "http", parses |-> FALSE])}

\* Index of the first occurrence of ch in s, 0 when there is none
RECURSIVE IndexFrom(_, _, _)
IndexFrom(s, ch, k) ==
    IF k > Len(s) THEN 0 ELSE IF s[k] = ch THEN k ELSE IndexFrom(s, ch, k + 1)

\* str::splitn(2, ':')
splitn2(s) ==
    LET k == IndexFrom(s, ":", 1)
    IN  IF k = 0 THEN <<s>> ELSE <<SubSeq(s, 1, k - 1), SubSeq(s, k + 1, Len(s))>>

\* str::trim
RECURSIVE trim(_)
trim(s) ==
    IF s = <<>> THEN s
    ELSE IF Head(s) = " " THEN trim(Tail(s))
    ELSE IF s[Len(s)] = " " THEN trim(SubSeq(s, 1, Len(s) - 1))
    ELSE s

\* HeaderName::from_bytes: a non-empty string of token characters
HeaderNameOk(n) == Len(n) > 0 /\ \A k \in 1 .. Len(n) : n[k] \in TokenChars

\* HeaderValue::from_str: no control character
HeaderValueOk(v) == \A k \in 1 .. Len(v) : v[k] # "DEL"

\* main.rs 320-327, one header string: "skipped" when it has no colon, "error"
\* when the name or the value is refused (run returns HeaderParseError),
\* "inserted" otherwise
ParseHeader(h) ==
    LET parts == splitn2(h)
    IN  IF Len(parts) # 2 THEN "skipped"
        ELSE IF ~HeaderNameOk(trim(parts[1])) THEN "error"
        ELSE IF ~HeaderValueOk(trim(parts[2])) THEN "error"
        ELSE "inserted"

\* Values of one --headers option explored
HeaderStrings ==
    {<<"a", ":", " ", "a">>,
     <<"a", "a">>,
     <<"a", " ", "a", ":", "a">>,
     <<" ", ":", "a">>,
     <<"a", ":", "a", "DEL">>}

\* Values of --body explored
BodyArgs == {None, Some("d")}

\* curl_parser::ParsedRequest::load on the trailing arguments: None when it
\* fails, else the parsed command
CurlCommands ==
    {None,
     Some([method |-> POST, url |-> "u", headers |-> <<>>, body |-> "d"]),
     Some([method |-> GET, url |-> "u", headers |-> <<<<"a", ":", " ", "a">>>>, body |-> ""])}

\* Args with clap's defaults (method GET, timeout 20, no header, no body, no
\* proxy) for a given url, number and concurrency
DefaultArgs(n, c) ==
    [number |-> n, concurrency |-> c, curl |-> FALSE, command |-> None,
     method |-> GET, headers |-> <<>>, timeout |-> 20, body |-> None,
     proxy |-> None, url |-> "u"]

\* Args::validate: [exit |-> TRUE] where it calls std::process::exit(1), else
\* the Args it leaves (curl mode overwrites method, url, headers and body)
validate(a) ==
    LET b == IF a.curl /\ a.command # None
             THEN [a EXCEPT !.method = a.command[1].method,
                            !.url = a.command[1].url,
                            !.headers = a.command[1].headers,
                            !.body = Some(a.command[1].body)]
             ELSE a
        exit ==
            \/ a.concurrency > a.number
            \/ (~a.curl /\ a.url = "")
            \/ TimeoutRejected(a.timeout)
            \/ (a.curl /\ a.command = None)
            \/ ~MethodValid(b.method)
            \/ (a.proxy # None /\ StartsWithSocks4(a.proxy[1]))
            \/ (a.proxy # None /\ ~ProxyAll(a.proxy[1]))
    IN  [exit |-> exit, args |-> b]

\* main.rs 308-359: run() up to the client: Ok unless a header or the proxy is
\* refused
RECURSIVE HeadersOk(_)
HeadersOk(hs) ==
    IF hs = <<>> THEN TRUE
    ELSE ParseHeader(Head(hs)) # "error" /\ HeadersOk(Tail(hs))

ClientOk(a) == HeadersOk(a.headers) /\ (a.proxy # None => ProxyAll(a.proxy[1]))

\* main.rs 380-381, 391-399: the request a unit puts on the wire
WireRequest(a) ==
    LET method == IF MethodValid(a.method) THEN a.method ELSE GET
    IN  [method |-> method,
         body |-> IF method = POST /\ a.body # None THEN a.body ELSE None]

\* ------------------------------------------------------------------ Init

NoUnit ==
    [pc |-> "unspawned", res |-> None, req |-> None,
     response_headers |-> EmptyHeaders, ms |-> 0, cache_status |-> None,
     dns_times |-> <<0, 0>>, content_length |-> None]

\* No task exists: before the first launch, and after the runtime is dropped
NoTasks ==
    [outer |-> [r \in Runs |-> "none"],
     sup |-> [r \in Runs |-> [pc |-> "none", i |-> 0]],
     permits |-> [r \in Runs |-> 0],
     unit |-> [r \in Runs |-> [u \in Units |-> NoUnit]],
     trace |-> [r \in Runs |-> [u \in Units |-> <<>>]]]

\* Header options explored by Spec: none, or one whose name is refused
SpecHeaders == {<<>>, <<<<"a", " ", "a", ":", "a">>>>}

\* main after Args::parse and Args::validate (concurrency <= number), at the top
\* of the 'main loop.
Init ==
    /\ \E n \in 1 .. MaxN : \E c \in 1 .. n : \E h \in SpecHeaders :
            args = [DefaultArgs(n, c) EXCEPT !.headers = h]
    /\ config = <<>>
    /\ plan = None
    /\ printed = None
    /\ tree = None
    /\ restarts \in {k \in 0 .. (MaxRuns - 1) : args.number * (k + 1) <= MaxWork}
    /\ ctl = "launch"
    /\ polled = "none"
    /\ key = "none"
    /\ gen = 0
    /\ outer = NoTasks.outer
    /\ sup = NoTasks.sup
    /\ permits = NoTasks.permits
    /\ unit = NoTasks.unit
    /\ trace = NoTasks.trace
    /\ rx = <<>>
    /\ sent_rx = 0
    /\ dpc = "rx"
    /\ dash = DashboardNew
    /\ arrived = <<>>

\* ------------------------------------------------------- control loop, main

\* Mutant of Capacity: both channels hold one message
CapacityOne(a) == 1

\* main.rs 479-480: `mpsc::channel(args.number as usize)`, the capacity of the
\* completion-record channel and of the sent-event channel of a run
Capacity(a) == a.number

\* Mutant of ChannelOpen: the channels are created once, outside the 'main loop
ChannelOpenAcrossRuns(r) == ctl = "dashboard"

\* The receivers rx and sent_rx live in one iteration of the 'main loop: a send of
\* a unit of run r succeeds only while main is inside dashboard.run of run r.
ChannelOpen(r) == r = gen - 1 /\ ctl = "dashboard"

\* Runs on which main has called handler.abort()
AbortCalled(r) == r < gen - 1 \/ (r = gen - 1 /\ ctl = "launch")

\* JoinHandle::abort on the outer task: a task that has not completed is cancelled
\* at its await point; the JoinHandle of the supervising task it was awaiting is
\* dropped, which detaches the supervising task and leaves the units untouched.
abort(o) == IF o \in {"spawned", "awaiting"} THEN "cancelled" ELSE o

\* main.rs 479-490: new channels, spawn the outer task, Dashboard::new, enter
\* dashboard.run
Launch ==
    /\ ctl = "launch"
    /\ gen < MaxRuns
    /\ IF args.number = 0
       THEN \* tokio's mpsc::channel panics on a capacity of 0: main unwinds
            /\ ctl' = "crashed"
            /\ UNCHANGED <<rx, sent_rx, outer, dash, arrived, dpc, gen, key>>
       ELSE /\ rx' = <<>>
            /\ sent_rx' = 0
            /\ outer' = [outer EXCEPT ![gen] = "spawned"]
            /\ dash' = DashboardNew
            /\ arrived' = <<>>
            /\ dpc' = "rx"
            /\ ctl' = "dashboard"
            /\ gen' = gen + 1
            /\ key' = "none"
    /\ polled' = "none"
    /\ UNCHANGED <<config, plan, printed, tree, args, restarts, sup, permits, unit, trace>>

\* ui.rs 171-173
DrainRx ==
    /\ ctl = "dashboard" /\ dpc = "rx"
    /\ dash' = DrainAll(dash, rx)
    /\ arrived' = arrived \o rx
    /\ rx' = <<>>
    /\ dpc' = "sent"
    /\ polled' = "none"
    /\ UNCHANGED <<config, plan, printed, tree, args, restarts, ctl, key, gen, outer, sup, permits, unit, trace, sent_rx>>

\* Mutant of DrainSent: `if let` for `while let`, one event is taken per tick
DrainSentOne ==
    /\ ctl = "dashboard" /\ dpc = "sent"
    /\ dash' = update_sent(dash, IF sent_rx > 0 THEN 1 ELSE 0)
    /\ sent_rx' = IF sent_rx > 0 THEN sent_rx - 1 ELSE 0
    /\ dpc' = "draw"
    /\ UNCHANGED <<config, plan, printed, tree, args, polled, restarts, ctl, key, gen, outer, sup, permits, unit, trace, rx, arrived>>

\* ui.rs 175-177
DrainSent ==
    /\ ctl = "dashboard" /\ dpc = "sent"
    /\ dash' = update_sent(dash, sent_rx)
    /\ sent_rx' = 0
    /\ dpc' = "draw"
    /\ UNCHANGED <<config, plan, printed, tree, args, polled, restarts, ctl, key, gen, outer, sup, permits, unit, trace, rx, arrived>>

\* KeyCodes explored: the five the dashboard returns, and one other key
Keys == {"q", "r", "i", "Esc", "Enter", "x"}

\* Mutant of Returns: the dashboard returns whatever key was pressed
ReturnsAnyKey(k) == k \in Keys

\* ui.rs 185-192: the keys on which Dashboard::run returns Ok(key.code)
Returns(k) == k \in {"q", "r", "Esc", "Enter", "i"}

\* main.rs 492-510: the arm of `match result` taken for Ok(k)
MatchArm(k) ==
    CASE k = "r" -> "continue"
      [] k \in {"q", "Esc", "Enter"} -> "break"
      [] k = "i" -> "interrupt"
      [] OTHER -> "break"

\* ui.rs 179-197: draw, poll: no key within 25 ms, or a key on which the
\* dashboard does not return
Draw ==
    /\ ctl = "dashboard" /\ dpc = "draw"
    /\ \E k \in {"none"} \cup {k2 \in Keys : ~Returns(k2)} : polled' = k
    /\ dash' = render_layout(dash, args)
    /\ dpc' = "rx"
    /\ UNCHANGED <<config, plan, printed, tree, args, restarts, ctl, key, gen, outer, sup, permits, unit, trace, rx, sent_rx, arrived>>

\* ui.rs 183-195 returns 'r'; main.rs 493-496: abort, continue 'main
KeyRestart ==
    /\ ctl = "dashboard" /\ dpc = "draw"
    /\ restarts > 0
    /\ restarts' = restarts - 1
    /\ Returns("r") /\ MatchArm("r") = "continue"
    /\ polled' = "r"
    /\ key' = "r"
    /\ outer' = [outer EXCEPT ![gen - 1] = abort(@)]
    /\ ctl' = "launch"
    /\ UNCHANGED <<config, plan, printed, tree, args, gen, sup, permits, unit, trace, rx, sent_rx, dpc, dash, arrived>>

\* ui.rs 183-195 returns 'i'; main.rs 500-503: notify, abort; the match arm ends
\* and the loop body with it, so the 'main loop starts its next iteration
KeyInterrupt ==
    /\ ctl = "dashboard" /\ dpc = "draw"
    /\ restarts > 0
    /\ restarts' = restarts - 1
    /\ Returns("i") /\ MatchArm("i") = "interrupt"
    /\ polled' = "i"
    /\ key' = "i"
    /\ outer' = [outer EXCEPT ![gen - 1] = abort(@)]
    /\ ctl' = "launch"
    /\ UNCHANGED <<config, plan, printed, tree, args, gen, sup, permits, unit, trace, rx, sent_rx, dpc, dash, arrived>>

\* ui.rs 183-195 returns q, Esc or Enter; main.rs 497-499, 513-515: break, main
\* returns: the loop's locals (channels, dashboard) and the runtime with every
\* task still on it are dropped
KeyQuit ==
    /\ ctl = "dashboard" /\ dpc = "draw"
    /\ \E k \in Keys :
            Returns(k) /\ MatchArm(k) = "break" /\ polled' = k /\ key' = k
    /\ ctl' = "stopped"
    /\ outer' = NoTasks.outer
    /\ sup' = NoTasks.sup
    /\ permits' = NoTasks.permits
    /\ unit' = NoTasks.unit
    /\ trace' = NoTasks.trace
    /\ rx' = <<>>
    /\ sent_rx' = 0
    /\ dash' = DashboardNew
    /\ arrived' = <<>>
    /\ UNCHANGED <<config, plan, printed, tree, args, restarts, gen, dpc>>

\* ------------------------------------------------------------ dispatch, run

\* Tasks run while the process does: main returning shuts the runtime down.
Alive == ctl \notin {"stopped", "crashed", "exited"}

\* main.rs 484, 308-363: first poll of the outer task: run() builds the headers,
\* the semaphore and the client, spawns the supervising task and awaits it
RunSetup(r) ==
    /\ Alive
    /\ outer[r] = "spawned"
    /\ ClientOk(args)
    /\ outer' = [outer EXCEPT ![r] = "awaiting"]
    /\ permits' = [permits EXCEPT ![r] = args.concurrency]
    /\ sup' = [sup EXCEPT ![r] = [pc |-> "loop", i |-> 0]]
    /\ UNCHANGED <<config, plan, printed, tree, args, polled, restarts, ctl, key, gen, unit, trace, rx, sent_rx, dpc, dash, arrived>>

\* main.rs 308-359, 484: first poll of the outer task when run() returns Err
\* before it has spawned anything: the outer task completes with that Err, which
\* main never reads
RunFails(r) ==
    /\ Alive
    /\ outer[r] = "spawned"
    /\ ~ClientOk(args)
    /\ outer' = [outer EXCEPT ![r] = "failed"]
    /\ UNCHANGED <<config, plan, printed, tree, args, polled, restarts, ctl, key, gen, sup, permits, unit, trace, rx, sent_rx, dpc, dash, arrived>>

\* Mutant of LoopDone: the loop is one iteration short
LoopDoneOneShort(i, n) == i >= n - 1

\* main.rs 367: `for _i in 0..args.number` is over after `number` iterations
LoopDone(i, n) == i >= n

\* Mutant of CanAcquire: the unit is spawned without waiting for a permit
CanAcquireAlways(p) == TRUE

\* main.rs 370: acquire_owned().await completes only when a permit is available
CanAcquire(p) == p > 0

\* main.rs 367-378: one iteration of the supervising loop: acquire a permit, spawn
\* the unit (which owns the permit)
Admit(r) ==
    /\ Alive
    /\ sup[r].pc = "loop"
    /\ ~LoopDone(sup[r].i, args.number)
    /\ CanAcquire(permits[r])
    /\ permits' = [permits EXCEPT ![r] = @ - 1]
    /\ unit' = [unit EXCEPT ![r][sup[r].i + 1] = [NoUnit EXCEPT !.pc = "spawned"]]
    /\ trace' = [trace EXCEPT ![r][sup[r].i + 1] = <<"acquire">>]
    /\ sup' = [sup EXCEPT ![r] = [pc |-> IF LoopDone(sup[r].i + 1, args.number)
                                         THEN "done" ELSE "loop",
                                   i |-> sup[r].i + 1]]
    /\ UNCHANGED <<config, plan, printed, tree, args, polled, restarts, ctl, key, gen, outer, rx, sent_rx, dpc, dash, arrived>>

\* main.rs 457-464: handler.await completes, run returns Ok
OuterReturn(r) ==
    /\ Alive
    /\ outer[r] = "awaiting"
    /\ sup[r].pc = "done"
    /\ outer' = [outer EXCEPT ![r] = "finished"]
    /\ UNCHANGED <<config, plan, printed, tree, args, polled, restarts, ctl, key, gen, sup, permits, unit, trace, rx, sent_rx, dpc, dash, arrived>>

\* Mutant of SendSent: the result of the send is unwrapped, a closed channel
\* makes the unit panic (and drop its permit)
SendSentUnwrap(r, u) ==
    /\ Alive
    /\ unit[r][u].pc = "spawned"
    /\ ChannelOpen(r) => sent_rx < Capacity(args)
    /\ IF ChannelOpen(r)
       THEN /\ unit' = [unit EXCEPT ![r][u].pc = "sent"]
            /\ trace' = [trace EXCEPT ![r][u] = Append(@, "sent")]
            /\ sent_rx' = sent_rx + 1
            /\ permits' = permits
       ELSE /\ unit' = [unit EXCEPT ![r][u].pc = "panicked"]
            /\ trace' = [trace EXCEPT ![r][u] = Append(@, "release")]
            /\ sent_rx' = sent_rx
            /\ permits' = [permits EXCEPT ![r] = @ + 1]
    /\ UNCHANGED <<config, plan, printed, tree, args, polled, restarts, ctl, key, gen, outer, sup, rx, dpc, dash, arrived>>

\* main.rs 384: `let _ = sent_tx.send(Sent { count: 1 }).await`: the send waits
\* while the channel is full, and returns Err at once when the receiver is gone
SendSent(r, u) ==
    /\ Alive
    /\ unit[r][u].pc = "spawned"
    /\ ChannelOpen(r) => sent_rx < Capacity(args)
    /\ unit' = [unit EXCEPT ![r][u].pc = "sent"]
    /\ trace' = [trace EXCEPT ![r][u] = Append(@, "sent")]
    /\ sent_rx' = IF ChannelOpen(r) THEN sent_rx + 1 ELSE sent_rx
    /\ UNCHANGED <<config, plan, printed, tree, args, polled, restarts, ctl, key, gen, outer, sup, permits, rx, dpc, dash, arrived>>

\* main.rs 387-444: probe the DNS (a failure yields the default pair), issue the
\* request, await its outcome, build the ResponseStats.  The statements touch
\* nothing but the unit's own locals.  A panic in the truncation of the body
\* unwinds the task: the permit it owns is dropped and no record is sent.
Request(r, u) ==
    /\ Alive
    /\ unit[r][u].pc = "sent"
    /\ \E reply \in Replies(args.url) :
        IF reply.status_code # None /\ TruncatePanics(reply.body)
        THEN /\ unit' = [unit EXCEPT ![r][u] =
                    [NoUnit EXCEPT !.pc = "panicked", !.req = Some(WireRequest(args))]]
             /\ trace' = [trace EXCEPT ![r][u] = @ \o <<"dns", "request", "release">>]
             /\ permits' = [permits EXCEPT ![r] = @ + 1]
        ELSE /\ unit' = [unit EXCEPT ![r][u] =
                    [pc |-> "requested", res |-> reply.status_code,
                     req |-> Some(WireRequest(args)),
                     response_headers |-> reply.headers,
                     ms |-> reply.duration,
                     cache_status |-> parse_cache_status(reply.headers),
                     dns_times |-> unwrap_or_default(resolve_dns(args.url)),
                     content_length |-> reply.content_length]]
             /\ trace' = [trace EXCEPT ![r][u] = @ \o <<"dns", "request">>]
             /\ permits' = permits
    /\ UNCHANGED <<config, plan, printed, tree, args, polled, restarts, ctl, key, gen, outer, sup, rx, sent_rx, dpc, dash, arrived>>

\* main.rs 409-444: the ResponseStats of a unit whose request has resolved
StatsOf(r, u) ==
    [id |-> <<r, u>>, status_code |-> unit[r][u].res, duration |-> unit[r][u].ms,
     content_length |-> unit[r][u].content_length,
     dns_times |-> RecordDnsTimes(unit[r][u].res, unit[r][u].dns_times),
     cache_status |-> unit[r][u].cache_status]

\* Mutant of Release: the permit is dropped after the record is sent
ReleaseAfterReport(r, u) ==
    /\ Alive
    /\ unit[r][u].pc = "requested"
    /\ ChannelOpen(r) => Len(rx) < Capacity(args)
    /\ unit' = [unit EXCEPT ![r][u] = [NoUnit EXCEPT !.pc = "done", !.req = unit[r][u].req]]
    /\ permits' = [permits EXCEPT ![r] = @ + 1]
    /\ trace' = [trace EXCEPT ![r][u] = @ \o <<"record", "release">>]
    /\ rx' = IF ChannelOpen(r)
             THEN Append(rx, StatsOf(r, u))
             ELSE rx
    /\ UNCHANGED <<config, plan, printed, tree, args, polled, restarts, ctl, key, gen, outer, sup, sent_rx, dpc, dash, arrived>>

\* main.rs 446: drop(permit)
Release(r, u) ==
    /\ Alive
    /\ unit[r][u].pc = "requested"
    /\ unit' = [unit EXCEPT ![r][u].pc = "released"]
    /\ permits' = [permits EXCEPT ![r] = @ + 1]
    /\ trace' = [trace EXCEPT ![r][u] = Append(@, "release")]
    /\ UNCHANGED <<config, plan, printed, tree, args, polled, restarts, ctl, key, gen, outer, sup, rx, sent_rx, dpc, dash, arrived>>

\* Mutant of Report: a unit whose request failed sends no record
ReportSuccessOnly(r, u) ==
    /\ Alive
    /\ unit[r][u].pc = "released"
    /\ ChannelOpen(r) => Len(rx) < Capacity(args)
    /\ unit' = [unit EXCEPT ![r][u] = [NoUnit EXCEPT !.pc = "done", !.req = unit[r][u].req]]
    /\ trace' = [trace EXCEPT ![r][u] = Append(@, "record")]
    /\ rx' = IF ChannelOpen(r) /\ unit[r][u].res # None
             THEN Append(rx, StatsOf(r, u))
             ELSE rx
    /\ UNCHANGED <<config, plan, printed, tree, args, polled, restarts, ctl, key, gen, outer, sup, permits, sent_rx, dpc, dash, arrived>>

\* main.rs 447-451: tx.send(stats).await waits while the channel is full; an
\* error of the send (receiver gone) is ignored
Report(r, u) ==
    /\ Alive
    /\ unit[r][u].pc = "released"
    /\ ChannelOpen(r) => Len(rx) < Capacity(args)
    /\ unit' = [unit EXCEPT ![r][u] = [NoUnit EXCEPT !.pc = "done", !.req = unit[r][u].req]]
    /\ trace' = [trace EXCEPT ![r][u] = Append(@, "record")]
    /\ rx' = IF ChannelOpen(r)
             THEN Append(rx, StatsOf(r, u))
             ELSE rx
    /\ UNCHANGED <<config, plan, printed, tree, args, polled, restarts, ctl, key, gen, outer, sup, permits, sent_rx, dpc, dash, arrived>>

UnitStep(r, u) ==
    \/ SendSent(r, u)
    \/ Request(r, u)
    \/ Release(r, u)
    \/ Report(r, u)

Tick == DrainRx \/ DrainSent \/ Draw

Next ==
    \/ Launch
    \/ DrainRx
    \/ DrainSent
    \/ Draw
    \/ KeyRestart
    \/ KeyInterrupt
    \/ KeyQuit
    \/ \E r \in Runs : RunSetup(r)
    \/ \E r \in Runs : RunFails(r)
    \/ \E r \in Runs : Admit(r)
    \/ \E r \in Runs : OuterReturn(r)
    \/ \E r \in Runs, u \in Units : SendSent(r, u)
    \/ \E r \in Runs, u \in Units : Request(r, u)
    \/ \E r \in Runs, u \in Units : Release(r, u)
    \/ \E r \in Runs, u \in Units : Report(r, u)

Spec == Init /\ [][Next]_vars

\* The tokio runtime polls every task that is ready, and the dashboard loop keeps
\* ticking while no key ends it; every request resolves (reqwest's timeout).
LiveSpec ==
    /\ Spec
    /\ WF_vars(Launch)
    /\ WF_vars(Tick)
    /\ \A r \in Runs : WF_vars(RunSetup(r)) /\ WF_vars(RunFails(r)) /\ WF_vars(Admit(r))
    /\ \A r \in Runs, u \in Units : WF_vars(UnitStep(r, u))

\* ------------------------------------------------ from the command line

\* Values an option of the command line can give to its field of Args
OptionValues ==
    [curl |-> CurlCommands,
     method |-> Methods \ {GET},
     headers |-> {<<h>> : h \in HeaderStrings},
     timeout |-> Timeouts \ {20},
     body |-> BodyArgs \ {None},
     proxy |-> Proxies \ {None},
     url |-> {""}]

\* The values of one field of Args: those of its option when the option is
\* given, clap's default when it is not
Given(opts, name, default) == IF name \in opts THEN OptionValues[name] ELSE {default}

\* Args::parse of a command line that gives --number, --concurrency and at most
\* maxopts of the other options
ParsedArgs(maxopts) ==
    UNION {
        {[DefaultArgs(n, c) EXCEPT
                !.curl = "curl" \in opts, !.command = cmd, !.method = m,
                !.headers = h, !.timeout = t, !.body = b, !.proxy = px, !.url = u]
            : n \in 0 .. MaxCliN, c \in 0 .. (MaxCliN + 1),
              cmd \in Given(opts, "curl", None),
              m \in Given(opts, "method", GET),
              h \in Given(opts, "headers", <<>>),
              t \in Given(opts, "timeout", 20),
              b \in Given(opts, "body", None),
              px \in Given(opts, "proxy", None),
              u \in Given(opts, "url", "u")}
        : opts \in {o \in SUBSET DOMAIN OptionValues : Cardinality(o) <= maxopts}}

\* main.rs 469: Args::parse has returned
InitCli ==
    /\ args \in ParsedArgs(MaxOptions)
    /\ config = <<>>
    /\ plan = None
    /\ printed = None
    /\ tree = None
    /\ restarts = 0
    /\ ctl = "parsed"
    /\ polled = "none"
    /\ key = "none"
    /\ gen = 0
    /\ outer = NoTasks.outer
    /\ sup = NoTasks.sup
    /\ permits = NoTasks.permits
    /\ unit = NoTasks.unit
    /\ trace = NoTasks.trace
    /\ rx = <<>>
    /\ sent_rx = 0
    /\ dpc = "rx"
    /\ dash = DashboardNew
    /\ arrived = <<>>

\* main.rs 470: args.validate()
Validate ==
    /\ ctl = "parsed"
    /\ LET v == validate(args)
       IN  IF v.exit
           THEN ctl' = "exited" /\ args' = args
           ELSE ctl' = "launch" /\ args' = v.args
    /\ UNCHANGED <<config, plan, printed, tree, restarts, polled, key, gen, outer, sup, permits, unit, trace, rx, sent_rx, dpc, dash, arrived>>

\* The process from its start, the dashboard not consuming: validation, launch
\* of the first run, and the run's tasks.
NextCli ==
    \/ Validate
    \/ Launch
    \/ \E r \in Runs : RunSetup(r)
    \/ \E r \in Runs : RunFails(r)
    \/ \E r \in Runs : Admit(r)
    \/ \E r \in Runs : OuterReturn(r)
    \/ \E r \in Runs, u \in Units : SendSent(r, u)
    \/ \E r \in Runs, u \in Units : Request(r, u)
    \/ \E r \in Runs, u \in Units : Release(r, u)
    \/ \E r \in Runs, u \in Units : Report(r, u)

SpecCli == InitCli /\ [][NextCli]_vars

\* The process from its start with the dashboard's loop running and no key
\* pressed: validation, the launch of the one run, its tasks, the ticks.
NextAccepted ==
    \/ Validate
    \/ Launch
    \/ DrainRx
    \/ DrainSent
    \/ Draw
    \/ \E r \in Runs : RunSetup(r)
    \/ \E r \in Runs : RunFails(r)
    \/ \E r \in Runs : Admit(r)
    \/ \E r \in Runs : OuterReturn(r)
    \/ \E r \in Runs, u \in Units : SendSent(r, u)
    \/ \E r \in Runs, u \in Units : Request(r, u)
    \/ \E r \in Runs, u \in Units : Release(r, u)
    \/ \E r \in Runs, u \in Units : Report(r, u)

\* main runs on, the runtime polls every task that is ready, the dashboard loop
\* keeps ticking, every request resolves.
SpecAccepted ==
    /\ InitCli /\ [][NextAccepted]_vars
    /\ WF_vars(Validate)
    /\ WF_vars(Launch)
    /\ WF_vars(Tick)
    /\ \A r \in Runs : WF_vars(RunSetup(r)) /\ WF_vars(RunFails(r)) /\ WF_vars(Admit(r))
    /\ \A r \in Runs, u \in Units : WF_vars(UnitStep(r, u))

\* ------------------------------------------- one request against a cache

\* The single unit of a run against the server at "cdn" has been spawned; main
\* is at the top of the dashboard's loop.
InitCache ==
    /\ args = [DefaultArgs(1, 1) EXCEPT !.url = "cdn"]
    /\ config = <<>>
    /\ plan = None
    /\ printed = None
    /\ tree = None
    /\ restarts = 0
    /\ ctl = "dashboard"
    /\ polled = "none"
    /\ key = "none"
    /\ gen = 1
    /\ outer = [NoTasks.outer EXCEPT ![0] = "awaiting"]
    /\ sup = [NoTasks.sup EXCEPT ![0] = [pc |-> "done", i |-> 1]]
    /\ permits = NoTasks.permits
    /\ unit = [NoTasks.unit EXCEPT ![0][1] = [NoUnit EXCEPT !.pc = "spawned"]]
    /\ trace = [NoTasks.trace EXCEPT ![0][1] = <<"acquire">>]
    /\ rx = <<>>
    /\ sent_rx = 0
    /\ dpc = "rx"
    /\ dash = DashboardNew
    /\ arrived = <<>>

\* The unit runs to its end and the dashboard drains the record channel.
NextCache ==
    \/ \E r \in Runs, u \in Units : SendSent(r, u)
    \/ \E r \in Runs, u \in Units : Request(r, u)
    \/ \E r \in Runs, u \in Units : Release(r, u)
    \/ \E r \in Runs, u \in Units : Report(r, u)
    \/ DrainRx

SpecCache == InitCache /\ [][NextCache]_vars

\* ------------------------------------------------- one run against any URL

\* main at the top of its loop, the URL is any of Urls
InitDns ==
    /\ \E n \in 1 .. MaxDnsN : \E c \in 1 .. n : \E url \in Urls :
            args = [DefaultArgs(n, c) EXCEPT !.url = url]
    /\ config = <<>>
    /\ plan = None
    /\ printed = None
    /\ tree = None
    /\ restarts = 0
    /\ ctl = "launch"
    /\ polled = "none"
    /\ key = "none"
    /\ gen = 0
    /\ outer = NoTasks.outer
    /\ sup = NoTasks.sup
    /\ permits = NoTasks.permits
    /\ unit = NoTasks.unit
    /\ trace = NoTasks.trace
    /\ rx = <<>>
    /\ sent_rx = 0
    /\ dpc = "rx"
    /\ dash = DashboardNew
    /\ arrived = <<>>

\* One run and its dashboard; the user presses none of the keys that return
NextDns ==
    \/ Launch
    \/ DrainRx
    \/ DrainSent
    \/ Draw
    \/ \E r \in Runs : RunSetup(r)
    \/ \E r \in Runs : Admit(r)
    \/ \E r \in Runs : OuterReturn(r)
    \/ \E r \in Runs, u \in Units : SendSent(r, u)
    \/ \E r \in Runs, u \in Units : Request(r, u)
    \/ \E r \in Runs, u \in Units : Release(r, u)
    \/ \E r \in Runs, u \in Units : Report(r, u)

SpecDns == InitDns /\ [][NextDns]_vars

\* ------------------------------------------------ a run that was restarted

\* main at the top of its loop after the restart key: run 0 had been set up (its
\* supervising task spawned, nothing admitted yet) when the key was read; its
\* outer task is cancelled and the receivers of its two channels are dropped.
InitClosed ==
    /\ \E c \in 1 .. MaxN : args = DefaultArgs(MaxN, c)
    /\ config = <<>>
    /\ plan = None
    /\ printed = None
    /\ tree = None
    /\ restarts = 0
    /\ ctl = "launch"
    /\ polled = "r"
    /\ key = "r"
    /\ gen = 1
    /\ outer = [NoTasks.outer EXCEPT ![0] = "cancelled"]
    /\ sup = [NoTasks.sup EXCEPT ![0] = [pc |-> "loop", i |-> 0]]
    /\ permits = [NoTasks.permits EXCEPT ![0] = args.concurrency]
    /\ unit = NoTasks.unit
    /\ trace = NoTasks.trace
    /\ rx = <<>>
    /\ sent_rx = 0
    /\ dpc = "draw"
    /\ dash = DashboardNew
    /\ arrived = <<>>

\* The tasks of run 0 go on while main launches run 1 and runs its dashboard.
\* The tasks of run 1 are left out: they share nothing with those of run 0.
NextClosed ==
    \/ Launch
    \/ DrainRx
    \/ DrainSent
    \/ Draw
    \/ Admit(0)
    \/ \E u \in Units : SendSent(0, u)
    \/ \E u \in Units : Request(0, u)
    \/ \E u \in Units : Release(0, u)
    \/ \E u \in Units : Report(0, u)

SpecClosed == InitClosed /\ [][NextClosed]_vars

\* ------------------------------------------------ the dashboard's charts

\* Completion records fed to the dashboard by SpecHist: status_code and
\* milliseconds
HistInputs ==
    {[status_code |-> Some(200), duration |-> 0],
     [status_code |-> Some(200), duration |-> 10],
     [status_code |-> Some(200), duration |-> 20],
     [status_code |-> Some(200), duration |-> 30],
     [status_code |-> Some(200), duration |-> 40],
     [status_code |-> None, duration |-> 50]}

\* A Dashboard at the top of its loop, nothing received yet
InitHist ==
    /\ args = DefaultArgs(MaxHist, 1)
    /\ config = <<>>
    /\ plan = None
    /\ printed = None
    /\ tree = None
    /\ restarts = 0
    /\ ctl = "dashboard"
    /\ polled = "none"
    /\ key = "none"
    /\ gen = 1
    /\ outer = NoTasks.outer
    /\ sup = NoTasks.sup
    /\ permits = NoTasks.permits
    /\ unit = NoTasks.unit
    /\ trace = NoTasks.trace
    /\ rx = <<>>
    /\ sent_rx = 0
    /\ dpc = "rx"
    /\ dash = DashboardNew
    /\ arrived = <<>>

\* ui.rs 171-173: a tick on which one record is waiting in the channel
Feed ==
    /\ dpc = "rx"
    /\ Len(arrived) < MaxHist
    /\ \E in \in HistInputs :
        LET stat == [id |-> <<0, Len(arrived) + 1>>, status_code |-> in.status_code,
                     duration |-> in.duration, content_length |-> None,
                     dns_times |-> Some(<<0, 0>>), cache_status |-> None]
        IN  /\ dash' = update_stats(dash, stat)
            /\ arrived' = Append(arrived, stat)
    /\ dpc' = "draw"
    /\ UNCHANGED <<config, plan, printed, tree, args, polled, restarts, ctl, key, gen, outer, sup, permits, unit, trace, rx, sent_rx>>

\* ui.rs 179-181, 955-972: the draw of that tick
Render ==
    /\ dpc = "draw"
    /\ dash' = render_layout(dash, args)
    /\ dpc' = "rx"
    /\ UNCHANGED <<config, plan, printed, tree, args, polled, restarts, ctl, key, gen, outer, sup, permits, unit, trace, rx, sent_rx, arrived>>

SpecHist == InitHist /\ [][Feed \/ Render]_vars

\* ------------------------------------------- the aggregator on its own

\* A Dashboard in its loop, fed completion records one by one.  The stream of
\* status codes is periodic: the first StreamPeriod records are arbitrary, each
\* later record repeats the status of the record StreamPeriod places before it.
InitAgg ==
    /\ args = DefaultArgs(MaxRecords, 1)
    /\ config = <<>>
    /\ plan = None
    /\ printed = None
    /\ tree = None
    /\ restarts = 0
    /\ ctl = "dashboard"
    /\ polled = "none"
    /\ key = "none"
    /\ gen = 1
    /\ outer = NoTasks.outer
    /\ sup = NoTasks.sup
    /\ permits = NoTasks.permits
    /\ unit = NoTasks.unit
    /\ trace = NoTasks.trace
    /\ rx = <<>>
    /\ sent_rx = 0
    /\ dpc = "rx"
    /\ dash = DashboardNew
    /\ arrived = <<>>

\* ui.rs 171-173: one iteration of `while let Ok(stat) = rx.try_recv()`
AggStep ==
    /\ Len(arrived) < MaxRecords
    /\ \E o \in AggOutcomes :
        /\ Len(arrived) >= StreamPeriod
              => o = arrived[Len(arrived) + 1 - StreamPeriod].status_code
        /\ LET stat == [id |-> <<0, Len(arrived) + 1>>, status_code |-> o,
                        duration |-> 3, content_length |-> None,
                        dns_times |-> Some(<<0, 0>>), cache_status |-> None]
           IN  /\ dash' = update_stats(dash, stat)
               /\ arrived' = Append(arrived, stat)
    /\ UNCHANGED <<config, plan, printed, tree, args, polled, restarts, ctl, key, gen, outer, sup, permits, unit, trace, rx, sent_rx, dpc>>

SpecAgg == InitAgg /\ [][AggStep]_vars

\* --------------------------------------- the aggregator and the clock

\* Completion records fed to the dashboard by SpecRate: a request that failed, a
\* 200 of 100 bytes, a 200 without Content-Length and without DNS times (as
\* ResponseStats::from_response builds it, response.rs 50-57), a 404 of 7 bytes
StatInputs ==
    {[status_code |-> None, content_length |-> None, dns_times |-> Some(<<0, 0>>)],
     [status_code |-> Some(200), content_length |-> Some(100), dns_times |-> Some(<<2, 0>>)],
     [status_code |-> Some(200), content_length |-> None, dns_times |-> None],
     [status_code |-> Some(404), content_length |-> Some(7), dns_times |-> Some(<<5, 1>>)]}

\* ui.rs 171-173: one iteration of `while let Ok(stat) = rx.try_recv()`
FeedStat ==
    /\ Len(arrived) < MaxStats
    /\ \E in \in StatInputs :
        LET stat == [id |-> <<0, Len(arrived) + 1>>, status_code |-> in.status_code,
                     duration |-> 3, content_length |-> in.content_length,
                     dns_times |-> in.dns_times, cache_status |-> None]
        IN  /\ dash' = update_stats(dash, stat)
            /\ arrived' = Append(arrived, stat)
    /\ UNCHANGED <<config, plan, printed, tree, args, polled, restarts, ctl, key, gen, outer, sup, permits, unit, trace, rx, sent_rx, dpc>>

\* ui.rs 62, 113-119: one more whole second has passed since Dashboard::new
Second ==
    /\ dash.secs < MaxSecs
    /\ dash' = [dash EXCEPT !.secs = @ + 1]
    /\ UNCHANGED <<config, plan, printed, tree, args, polled, restarts, ctl, key, gen, outer, sup, permits, unit, trace, rx, sent_rx, dpc, arrived>>

SpecRate == InitAgg /\ [][FeedStat \/ Second]_vars

\* ------------------------------------- the frames of one run, the clock

\* A Dashboard at the top of its loop, nothing received yet, with its
\* label_storage (ui.rs 152)
InitFrames ==
    /\ args = DefaultArgs(MaxFrameN, 1)
    /\ config = <<>>
    /\ plan = None
    /\ printed = None
    /\ tree = None
    /\ restarts = 0
    /\ ctl = "dashboard"
    /\ polled = "none"
    /\ key = "none"
    /\ gen = 1
    /\ outer = NoTasks.outer
    /\ sup = NoTasks.sup
    /\ permits = NoTasks.permits
    /\ unit = NoTasks.unit
    /\ trace = NoTasks.trace
    /\ rx = <<>>
    /\ sent_rx = 0
    /\ dpc = "rx"
    /\ dash = DashboardNew @@ [label_storage |-> <<>>]
    /\ arrived = <<>>

\* main.rs 447-451: a unit of the run queues its record
Arrive ==
    /\ Len(arrived) + Len(rx) < args.number
    /\ \E in \in HistInputs :
            rx' = Append(rx, [id |-> <<0, Len(arrived) + Len(rx) + 1>>,
                              status_code |-> in.status_code, duration |-> in.duration,
                              content_length |-> None, dns_times |-> Some(<<0, 0>>),
                              cache_status |-> None])
    /\ UNCHANGED <<config, plan, printed, tree, args, polled, restarts, ctl, key, gen, outer, sup, permits, unit, trace, sent_rx, dpc, dash, arrived>>

\* ui.rs 179-197, 955-972, 313-325: draw a frame, labels included; no key
Frame ==
    /\ ctl = "dashboard" /\ dpc = "draw"
    /\ Len(dash.label_storage) < MaxLabels
    /\ dash' = render_latency_labels(render_layout(dash, args))
    /\ dpc' = "rx"
    /\ UNCHANGED <<config, plan, printed, tree, args, polled, restarts, ctl, key, gen, outer, sup, permits, unit, trace, rx, sent_rx, arrived>>

SpecFrames == InitFrames /\ [][Arrive \/ DrainRx \/ DrainSent \/ Frame \/ Second]_vars

\* ------------------------------------------------- the plan of a Config

\* The ids a test can have or depend on
TestIds == {"a", "b", "ROOT"}

\* HttpTest, the fields build_execution_plan reads: id and depends_on
HttpTests == [id : TestIds, depends_on : {None} \cup {Some(x) : x \in TestIds}]

RECURSIVE Configs(_)
Configs(n) ==
    IF n = 0 THEN {<<>>}
    ELSE Configs(n - 1) \cup {Append(c, t) : c \in {d \in Configs(n - 1) : Len(d) = n - 1},
                                              t \in HttpTests}

\* HashMap::new(): the map without keys
EmptyMap == [k \in {} |-> <<>>]

\* lib.rs 32-35, 37-40: `map.entry(key).or_default().push(id)`
Push(map, dep, id) ==
    [k \in DOMAIN map \cup {dep} |->
        IF k = dep
        THEN (IF dep \in DOMAIN map THEN Append(map[dep], id) ELSE <<id>>)
        ELSE map[k]]

\* lib.rs 31, 36: the key a test is filed under
KeyOf(test) == IF test.depends_on # None THEN test.depends_on[1] ELSE "ROOT"

\* lib.rs 30-42: the loop over the tests, from the map built so far
RECURSIVE PlanFrom(_, _)
PlanFrom(map, tests) ==
    IF tests = <<>> THEN map
    ELSE PlanFrom(Push(map, KeyOf(Head(tests)), Head(tests).id), Tail(tests))

\* Config::build_execution_plan
build_execution_plan(tests) == PlanFrom(EmptyMap, tests)

\* A Config has been read from its file
InitPlan ==
    /\ config \in Configs(MaxTests)
    /\ plan = None
    /\ printed = None
    /\ tree = None
    /\ args = DefaultArgs(1, 1)
    /\ restarts = 0
    /\ ctl = "parsed"
    /\ polled = "none"
    /\ key = "none"
    /\ gen = 0
    /\ outer = NoTasks.outer
    /\ sup = NoTasks.sup
    /\ permits = NoTasks.permits
    /\ unit = NoTasks.unit
    /\ trace = NoTasks.trace
    /\ rx = <<>>
    /\ sent_rx = 0
    /\ dpc = "rx"
    /\ dash = DashboardNew
    /\ arrived = <<>>

\* `let plan = config.build_execution_plan()`
BuildPlan ==
    /\ plan = None
    /\ plan' = Some(build_execution_plan(config))
    /\ UNCHANGED <<config, printed, tree, args, restarts, ctl, polled, key, gen, outer, sup, permits, unit, trace, rx, sent_rx, dpc, dash, arrived>>

SpecPlan == InitPlan /\ [][BuildPlan]_vars

\* =================================================================== claims

\* ------------------------------------------------- the test-tree view

\* The result of a recursion that never returns: the stack overflows and the
\* process is killed
Overflow == <<"!">>

\* The output of one part followed by the output of the next, if both return
Cat(a, b) == IF a = Overflow \/ b = Overflow THEN Overflow ELSE a \o b

\* The ids of the tests, in order
IdsOf(tests) == [i \in 1 .. Len(tests) |-> tests[i].id]

\* TestTree::build_nodes (file_ui.rs 167-198): the nodes by id (one node per id:
\* HashMap::insert replaces the node of an id already present), every one
\* expanded, children in the order of the tests that depend on the id, and the
\* ids of the tests without depends_on.  TestNode::parent, which nothing reads,
\* is left out.
build_nodes(tests) ==
    [nodes |->
        [id \in {tests[i].id : i \in 1 .. Len(tests)} |->
            [children |-> IdsOf(SelectSeq(tests, LAMBDA t : t.depends_on = Some(id))),
             expanded |-> TRUE]],
     root_nodes |-> IdsOf(SelectSeq(tests, LAMBDA t : t.depends_on = None))]

\* TestTree::build_node_items (file_ui.rs 212-237): the node, then the items of
\* its children when it is expanded.  `fuel` is the number of nested calls still
\* allowed: a chain of calls longer than the number of nodes visits a node
\* inside its own subtree and never ends.
RECURSIVE build_node_items(_, _, _)
RECURSIVE build_children(_, _, _)
build_node_items(nodes, node_id, fuel) ==
    IF fuel = 0 THEN Overflow
    ELSE Cat(<<node_id>>,
             IF nodes[node_id].expanded
             THEN build_children(nodes, nodes[node_id].children, fuel - 1)
             ELSE <<>>)

\* file_ui.rs 205-207, 232-235: `for child in children { build_node_items(..) }`
build_children(nodes, ids, fuel) ==
    IF ids = <<>> THEN <<>>
    ELSE LET first == build_node_items(nodes, Head(ids), fuel)
         IN  IF first = Overflow THEN Overflow
             ELSE Cat(first, build_children(nodes, Tail(ids), fuel))

\* TestTree::build_items (file_ui.rs 200-210): the ids of the rows, top to bottom
build_items(t) == build_children(t.nodes, t.root_nodes, Cardinality(DOMAIN t.nodes))

\* The tree after a call of build_items: visible_items rebuilt
Rebuilt(t) ==
    LET items == build_items(t)
    IN  IF items = Overflow THEN [t EXCEPT !.failed = "overflow"]
        ELSE [t EXCEPT !.visible_items = items]

\* TestTree::select_first (file_ui.rs 287-291)
select_first(t) ==
    IF t.root_nodes # <<>> THEN [t EXCEPT !.selected = Some(0)] ELSE t

\* TestTree::get_selected_node_id (file_ui.rs 280-285)
get_selected_node_id(t) ==
    IF t.selected # None /\ t.selected[1] < Len(t.visible_items)
    THEN Some(t.visible_items[t.selected[1] + 1])
    ELSE None

\* TestTree::select_previous (file_ui.rs 239-245)
select_previous(t) ==
    LET b       == Rebuilt(t)
        current == unwrap_or(t.selected, 0)
    IN  IF b.failed = "no" /\ current > 0
        THEN [b EXCEPT !.selected = Some(current - 1)]
        ELSE b

\* TestTree::select_next (file_ui.rs 247-257).  `items.len() - 1` on an empty
\* list underflows: a build with overflow checks panics, a build without them
\* wraps to usize::MAX and moves the selection on
select_next(t, overflow_checks) ==
    LET b == Rebuilt(t)
    IN  IF b.failed # "no" THEN b
        ELSE IF t.selected = None THEN [b EXCEPT !.selected = Some(0)]
        ELSE IF b.visible_items = <<>>
             THEN (IF overflow_checks THEN [b EXCEPT !.failed = "panic"]
                   ELSE [b EXCEPT !.selected = Some(t.selected[1] + 1)])
        ELSE IF t.selected[1] < Len(b.visible_items) - 1
             THEN [b EXCEPT !.selected = Some(t.selected[1] + 1)]
        ELSE b

\* TestTree::expand_selected (file_ui.rs 259-267)
expand_selected(t) ==
    LET selected == get_selected_node_id(t)
    IN  IF selected # None /\ selected[1] \in DOMAIN t.nodes
                          /\ t.nodes[selected[1]].children # <<>>
        THEN [t EXCEPT !.nodes[selected[1]].expanded = TRUE]
        ELSE t

\* TestTree::collapse_selected (file_ui.rs 269-278)
collapse_selected(t) ==
    LET selected == get_selected_node_id(t)
    IN  IF selected # None /\ selected[1] \in DOMAIN t.nodes
                          /\ t.nodes[selected[1]].children # <<>>
        THEN Rebuilt([t EXCEPT !.nodes[selected[1]].expanded = FALSE])
        ELSE t

\* Dashboard::render_tree (file_ui.rs 90-103): build_items, then ratatui's List
\* is rendered with the list state.  Rendering into an area that has room drops
\* the selection of an empty list and moves a selection past the end to the last
\* row; rendering into an empty area leaves the state as it is.
render_tree(t, room) ==
    LET b == Rebuilt(t)
        n == Len(b.visible_items)
    IN  IF b.failed # "no" \/ ~room THEN b
        ELSE IF n = 0 THEN [b EXCEPT !.selected = None]
        ELSE IF b.selected # None /\ b.selected[1] >= n
             THEN [b EXCEPT !.selected = Some(n - 1)]
        ELSE b

\* lib.rs 68-85: print_plan: the node unless it is ROOT, then its children
RECURSIVE print_plan(_, _, _)
RECURSIVE print_plans(_, _, _)
print_plan(node, map, fuel) ==
    IF fuel = 0 THEN Overflow
    ELSE Cat(IF node # "ROOT" THEN <<node>> ELSE <<>>,
             IF node \in DOMAIN map THEN print_plans(map[node], map, fuel - 1) ELSE <<>>)

\* lib.rs 81-84, 90-93: `for child in children { print_plan(child, ..) }`
print_plans(nodes, map, fuel) ==
    IF nodes = <<>> THEN <<>>
    ELSE LET first == print_plan(Head(nodes), map, fuel)
         IN  IF first = Overflow THEN Overflow
             ELSE Cat(first, print_plans(Tail(nodes), map, fuel))

\* Config::display_execution_plan (lib.rs 48-95): the ids printed, line by line
\* (the map is built as build_execution_plan builds it)
display_execution_plan(tests) ==
    LET map == build_execution_plan(tests)
    IN  IF "ROOT" \in DOMAIN map
        THEN print_plans(map["ROOT"], map,
                         Cardinality({tests[i].id : i \in 1 .. Len(tests)}))
        ELSE <<>>

\* `config.display_execution_plan()`
DisplayPlan ==
    /\ printed = None /\ tree = None
    /\ printed' = Some(display_execution_plan(config))
    /\ UNCHANGED <<config, plan, tree, args, restarts, ctl, polled, key, gen, outer, sup, permits, unit, trace, rx, sent_rx, dpc, dash, arrived>>

\* file_ui.rs 43-47, 157-165: Dashboard::new(config): TestTree::new, select_first
TreeNew ==
    /\ tree = None
    /\ printed = None \/ printed # Some(Overflow)
    /\ LET built == build_nodes(config)
       IN  tree' = Some(select_first(
                [nodes |-> built.nodes, root_nodes |-> built.root_nodes,
                 selected |-> None, visible_items |-> <<>>,
                 failed |-> "no", pc |-> "draw"]))
    /\ UNCHANGED <<config, plan, printed, args, restarts, ctl, polled, key, gen, outer, sup, permits, unit, trace, rx, sent_rx, dpc, dash, arrived>>

\* The view is up and its loop (file_ui.rs 54-67) is at `at`
TreeAt(at) == tree # None /\ tree[1].failed = "no" /\ tree[1].pc = at

\* file_ui.rs 55: terminal.draw(|frame| self.render(frame))
TreeRender ==
    /\ TreeAt("draw")
    /\ \E room \in BOOLEAN :
            tree' = Some([render_tree(tree[1], room) EXCEPT !.pc = "key"])
    /\ UNCHANGED <<config, plan, printed, args, restarts, ctl, polled, key, gen, outer, sup, permits, unit, trace, rx, sent_rx, dpc, dash, arrived>>

\* file_ui.rs 59: KeyCode::Up
TreeUp ==
    /\ TreeAt("key")
    /\ tree' = Some([select_previous(tree[1]) EXCEPT !.pc = "draw"])
    /\ UNCHANGED <<config, plan, printed, args, restarts, ctl, polled, key, gen, outer, sup, permits, unit, trace, rx, sent_rx, dpc, dash, arrived>>

\* file_ui.rs 60: KeyCode::Down
TreeDown ==
    /\ TreeAt("key")
    /\ tree[1].selected # None => tree[1].selected[1] < MaxIndex
    /\ \E overflow_checks \in BOOLEAN :
            tree' = Some([select_next(tree[1], overflow_checks) EXCEPT !.pc = "draw"])
    /\ UNCHANGED <<config, plan, printed, args, restarts, ctl, polled, key, gen, outer, sup, permits, unit, trace, rx, sent_rx, dpc, dash, arrived>>

\* file_ui.rs 61: KeyCode::Right
TreeRight ==
    /\ TreeAt("key")
    /\ tree' = Some([expand_selected(tree[1]) EXCEPT !.pc = "draw"])
    /\ UNCHANGED <<config, plan, printed, args, restarts, ctl, polled, key, gen, outer, sup, permits, unit, trace, rx, sent_rx, dpc, dash, arrived>>

\* file_ui.rs 62: KeyCode::Left
TreeLeft ==
    /\ TreeAt("key")
    /\ tree' = Some([collapse_selected(tree[1]) EXCEPT !.pc = "draw"])
    /\ UNCHANGED <<config, plan, printed, args, restarts, ctl, polled, key, gen, outer, sup, permits, unit, trace, rx, sent_rx, dpc, dash, arrived>>

\* file_ui.rs 58, 63: q leaves the loop, any other key is ignored
TreeOtherKey ==
    /\ TreeAt("key")
    /\ \E at \in {"quit", "draw"} : tree' = Some([tree[1] EXCEPT !.pc = at])
    /\ UNCHANGED <<config, plan, printed, args, restarts, ctl, polled, key, gen, outer, sup, permits, unit, trace, rx, sent_rx, dpc, dash, arrived>>

SpecTree ==
    InitPlan /\ [][DisplayPlan \/ TreeNew \/ TreeRender \/ TreeUp \/ TreeDown
                       \/ TreeRight \/ TreeLeft \/ TreeOtherKey]_vars

\* ------------------------------------------------------------ the claims

\* Units of run r that own a permit: admitted, permit not yet dropped
Held(r) == {u \in Units : unit[r][u].pc \in {"spawned", "sent", "requested"}}

\* C1: in every reachable state, for every run, the number of units that hold a
\* permit of the run's semaphore is at most the concurrency ceiling C.
C1_ConcurrencyBound ==
    \A r \in Runs : Cardinality(Held(r)) <= args.concurrency

\* C1 witness: C < N, all C permits are held and the supervising task is
\* suspended in acquire with units left to admit.
C1_Witness ==
    \E r \in Runs :
        /\ args.concurrency < args.number
        /\ sup[r].pc = "loop"
        /\ sup[r].i < args.number
        /\ Cardinality(Held(r)) = args.concurrency
        /\ permits[r] = 0

\* The first run was restarted, interrupted or quit
RunDisturbed == gen > 1 \/ ctl = "stopped" \/ (ctl = "launch" /\ gen = 1)

\* C2 (as claimed): a run that is never restarted, interrupted or quit, in which every request
\* resolves, eventually reaches count = N with success + failed + timeouts = N.
C2_RunCompletes ==
    <>(\/ RunDisturbed
       \/ /\ dash.count = args.number
          /\ dash.success + dash.failed + dash.timeouts = args.number)

C3_Count(seq, e) == Cardinality({k \in 1 .. Len(seq) : seq[k] = e})

\* C3 (as claimed): a run spawns at most N units and exactly N once its supervising task is
\* done; no unit emits more than one SentEvent or more than one CompletionRecord,
\* and a unit that has finished has emitted exactly one of each.
C3_OncePerUnit ==
    \A r \in Runs :
        /\ Cardinality({u \in Units : unit[r][u].pc # "unspawned"}) = sup[r].i
        /\ sup[r].i <= args.number
        /\ sup[r].pc = "done" => sup[r].i = args.number
        /\ \A u \in Units :
            /\ C3_Count(trace[r][u], "sent") <= 1
            /\ C3_Count(trace[r][u], "record") <= 1
            /\ unit[r][u].pc \in {"done", "panicked"}
                  => /\ C3_Count(trace[r][u], "sent") = 1
                     /\ C3_Count(trace[r][u], "record") = 1

\* Units of run r that have issued their HTTP request
C4_Issued(r) == {u \in Units : C3_Count(trace[r][u], "request") > 0}

\* C4 (as claimed): once main has handled a restart or an interrupt of run r, no
\* unit of run r issues a further HTTP request and no further permit of run r is
\* acquired.
C4_AbortStopsRun ==
    [][\A r \in Runs :
          AbortCalled(r) => /\ C4_Issued(r)' \subseteq C4_Issued(r)
                            /\ sup'[r].i <= sup[r].i]_vars

\* C5 (as claimed): after the interrupt key, the aggregate state keeps its last
\* values and no new run is launched.
C5_InterruptRetains ==
    [][key = "i" => (gen' = gen /\ dash' = dash)]_vars

C7_LogBounded == Len(dash.requests) <= LogCap

C8_Min(a, b) == IF a <= b THEN a ELSE b

\* C8 (as claimed): after k records, the rolling log holds exactly the last
\* min(k, 100) of them, each once, in arrival order.
C8_LogIsLastRecords ==
    dash.requests = SubSeq(arrived,
                           Len(arrived) - C8_Min(Len(arrived), LogCap) + 1,
                           Len(arrived))

\* C9: processing one record increments count by 1 and exactly one of timeouts
\* (no status code), success (status in 200..299) and failed (any other status)
\* by 1, and leaves the other two unchanged.
C9_OneCounterPerRecord ==
    [][LET stat == arrived'[Len(arrived')]
           code == stat.status_code
           t == IF code = None THEN 1 ELSE 0
           ok == IF code # None /\ code[1] \in 200 .. 299 THEN 1 ELSE 0
       IN  /\ Len(arrived') = Len(arrived) + 1
           /\ dash'.count = dash.count + 1
           /\ dash'.timeouts = dash.timeouts + t
           /\ dash'.success = dash.success + ok
           /\ dash'.failed = dash.failed + (1 - t - ok)]_vars

\* C9 witness: records of all three classes have been processed, among them the
\* statuses 199, 299 and 300 at the edges of the 2xx range.
C9_Witness ==
    /\ dash.timeouts >= 1
    /\ dash.success >= 1
    /\ dash.failed >= 1
    /\ \E k \in 1 .. Len(arrived) : arrived[k].status_code = Some(299)
    /\ \E k \in 1 .. Len(arrived) : arrived[k].status_code = Some(300)
    /\ dash.count = dash.success + dash.failed + dash.timeouts

C10_Order == <<"acquire", "sent", "dns", "request", "release", "record">>

\* C10: the events of one unit occur in the order permit acquired, SentEvent
\* emitted, DNS probed, HTTP request issued, permit released, record sent: what a
\* unit has done so far is always a prefix of that sequence.
C10_UnitOrder ==
    \A r \in Runs, u \in Units :
        /\ Len(trace[r][u]) <= Len(C10_Order)
        /\ trace[r][u] = SubSeq(C10_Order, 1, Len(trace[r][u]))

\* C10 witness: a unit that has gone through all six events.
C10_Witness ==
    \E r \in Runs, u \in Units : unit[r][u].pc = "done" /\ trace[r][u] = C10_Order

\* C11: a request that fails at the transport level (status_code None) never
\* aborts the run.  The step in which a unit's request fails changes nothing
\* but that unit; the failing unit then returns its permit and sends exactly one
\* record with status_code None (delivered while the run's channel is open); and
\* the permits of a run are conserved, so the supervising loop can always admit
\* the remaining units once a holder has released.
C11_Failed(r, u) == unit[r][u].pc \in {"requested", "released"} /\ unit[r][u].res = None

C11_FailureIsLocal ==
    /\ [](\A r \in Runs : sup[r].pc # "none" =>
            permits[r] + Cardinality(Held(r)) = args.concurrency)
    /\ [][\A r \in Runs, u \in Units :
            /\ (unit[r][u].pc = "sent" /\ C11_Failed(r, u)') =>
                    /\ UNCHANGED <<ctl, key, gen, outer, sup, permits, rx, dash>>
                    /\ \A r2 \in Runs, u2 \in Units :
                            <<r2, u2>> # <<r, u>> => unit'[r2][u2] = unit[r2][u2]
            /\ (C11_Failed(r, u) /\ unit'[r][u] # unit[r][u] /\ Alive') =>
                    IF unit[r][u].pc = "requested"
                    THEN /\ C11_Failed(r, u)'
                         /\ permits'[r] = permits[r] + 1
                    ELSE /\ unit'[r][u].pc = "done"
                         /\ trace'[r][u] = Append(trace[r][u], "record")
                         /\ ChannelOpen(r) =>
                                /\ rx' = Append(rx, StatsOf(r, u))
                                /\ StatsOf(r, u).status_code = None
                         /\ UNCHANGED <<sup, outer, ctl>>]_vars

\* With one permit, the first unit failed, its record with status_code None was
\* received, and the supervising loop went on to dispatch the second unit.
C11_Witness ==
    /\ args.concurrency = 1 /\ args.number = 2
    /\ \E k \in 1 .. Len(arrived) :
            arrived[k].id = <<0, 1>> /\ arrived[k].status_code = None
    /\ unit[0][1].pc = "done"
    /\ C3_Count(trace[0][1], "release") = 1
    /\ C3_Count(trace[0][1], "record") = 1
    /\ trace[0][2] # <<>>

\* C12: nothing is dispatched when validation fails.  A configuration with
\* concurrency > number, timeout = 0 or timeout > 120, an invalid HTTP method (the
\* method of the curl command in curl mode), or a proxy URL that starts with
\* socks4 or is otherwise invalid, goes from Args::parse straight to exit; until
\* validation has passed, and after the exit, no run is launched and no task
\* exists.
C12_Method(a) == IF a.curl /\ a.command # None THEN a.command[1].method ELSE a.method

C12_Rejected(a) ==
    \/ a.concurrency > a.number
    \/ a.timeout = 0
    \/ a.timeout > 120
    \/ ~MethodValid(C12_Method(a))
    \/ (a.proxy # None /\ (StartsWithSocks4(a.proxy[1]) \/ ~ProxyAll(a.proxy[1])))

C12_NothingDispatched ==
    /\ gen = 0
    /\ outer = NoTasks.outer /\ sup = NoTasks.sup /\ unit = NoTasks.unit
    /\ rx = <<>> /\ sent_rx = 0

C12_RejectedBeforeDispatch ==
    /\ [](ctl \in {"parsed", "exited"} => C12_NothingDispatched)
    /\ [][/\ (ctl = "parsed" /\ C12_Rejected(args)) => ctl' = "exited"
          /\ ctl = "exited" => UNCHANGED vars]_vars

\* A configuration whose only fault is a socks4 proxy has been rejected.
C12_Witness ==
    /\ ctl = "exited"
    /\ args.proxy # None /\ StartsWithSocks4(args.proxy[1])
    /\ args.concurrency <= args.number
    /\ args.timeout \in 1 .. 120
    /\ MethodValid(args.method)

\* C13: a malformed header string (no colon, or a name or a value that is
\* refused) is a fatal configuration error surfaced before any dispatch: with
\* such a header the process never gets past validation, and main is never in
\* the dashboard of a run whose dispatcher has failed.
C13_Malformed(h) ==
    LET parts == splitn2(h)
    IN  \/ Len(parts) # 2
        \/ ~HeaderNameOk(trim(parts[1]))
        \/ ~HeaderValueOk(trim(parts[2]))

C13_MalformedHeaderIsFatal ==
    /\ (\E k \in 1 .. Len(args.headers) : C13_Malformed(args.headers[k])) =>
            ctl \in {"parsed", "exited"}
    /\ \A r \in Runs : ~(ctl = "dashboard" /\ outer[r] = "failed")

\* C14: the body is attached to the outgoing request exactly when a body is
\* present and the method is POST or PUT; every other request carries no body.
C14_BodyIffPostOrPut ==
    \A r \in Runs, u \in Units :
        unit[r][u].req # None =>
            unit[r][u].req[1].body =
                IF args.body # None /\ unit[r][u].req[1].method \in {POST, PUT}
                THEN args.body ELSE None

\* C15: q, Esc and Enter terminate the control loop: when the dashboard reads one
\* of them main leaves the loop, and from then on nothing is launched or changed;
\* a key other than q, r, i, Esc and Enter changes neither the control state nor
\* the current run (the tick on which it is read redraws the chart, the
\* statistics of the latencies and the duration, as every tick does).
C15_KeysEndOrIgnore ==
    [][/\ (polled = "none" /\ polled' \in {"q", "Esc", "Enter"}) => ctl' = "stopped"
       /\ ctl = "stopped" => UNCHANGED vars
       /\ (polled = "none" /\ polled' \notin {"none", "q", "r", "i", "Esc", "Enter"}) =>
            /\ UNCHANGED <<config, plan, printed, tree, args, restarts, ctl, key, gen, outer, sup, permits, unit,
                           trace, rx, sent_rx, arrived>>
            /\ [dash' EXCEPT !.bar_chart_data = <<>>, !.avg = 0, !.std_dev = 0,
                             !.final_duration = None] =
                    [dash EXCEPT !.bar_chart_data = <<>>, !.avg = 0, !.std_dev = 0,
                                 !.final_duration = None]]_vars

\* Esc was pressed while the first run was in the dashboard: the loop is left.
C15_Witness == ctl = "stopped" /\ polled = "Esc" /\ key = "Esc" /\ gen = 1

\* C16: CacheCategory::from_cache_status is total and maps each of the 9
\* CacheStatus variants to exactly one category: Hit, Revalidated and Stale to
\* Hit; Miss, Expired, Bypass and Dynamic to Miss; Error and Unknown to Unknown.
\* Every record with a cache status raises the counter of that category by one
\* and no other counter.
C16_Category(status) ==
    IF status \in {"Hit", "Revalidated", "Stale"} THEN "Hit"
    ELSE IF status \in {"Miss", "Expired", "Bypass", "Dynamic"} THEN "Miss"
    ELSE IF status \in {"Error", "Unknown"} THEN "Unknown"
    ELSE "none"

C16_CategoryOfStatus ==
    [][Len(arrived') = Len(arrived) + 1 =>
        LET stat == arrived'[Len(arrived')]
        IN  /\ stat.cache_status # None => stat.cache_status[1] \in CacheStatuses
            /\ \A c \in {"Hit", "Miss", "Unknown"} :
                    dash'.cache_categories[c] = dash.cache_categories[c] +
                        (IF stat.cache_status # None /\ C16_Category(stat.cache_status[1]) = c
                         THEN 1 ELSE 0)]_vars

\* A record classified Stale has been counted as a hit.
C16_Witness ==
    /\ Len(arrived) = 1
    /\ arrived[1].cache_status = Some("Stale")
    /\ dash.cache_categories = [Hit |-> 1, Miss |-> 0, Unknown |-> 0]

\* The words of the classifier and the status each stands for.
C17_Words ==
    <<[word |-> <<"h", "i", "t">>, status |-> "Hit"],
      [word |-> <<"m", "i", "s", "s">>, status |-> "Miss"],
      [word |-> <<"s", "t", "a", "l", "e">>, status |-> "Stale"],
      [word |-> <<"e", "x", "p", "i", "r", "e", "d">>, status |-> "Expired"],
      [word |-> <<"r", "e", "v", "a", "l", "i", "d", "a", "t", "e", "d">>, status |-> "Revalidated"],
      [word |-> <<"b", "y", "p", "a", "s", "s">>, status |-> "Bypass"],
      [word |-> <<"d", "y", "n", "a", "m", "i", "c">>, status |-> "Dynamic"],
      [word |-> <<"e", "r", "r", "o", "r">>, status |-> "Error"]>>

\* v is the word w up to the case of its letters
C17_SameWord(v, w) ==
    /\ Len(v) = Len(w)
    /\ \A k \in 1 .. Len(w) :
            \/ v[k] = w[k]
            \/ \E j \in 1 .. Len(LowerChars) : LowerChars[j] = w[k] /\ UpperChars[j] = v[k]

\* The status of a header value: that of the word it is, Unknown for every other
\* value
C17_StatusOf(v) ==
    IF \E k \in 1 .. Len(C17_Words) : C17_SameWord(v, C17_Words[k].word)
    THEN C17_Words[CHOOSE k \in 1 .. Len(C17_Words) : C17_SameWord(v, C17_Words[k].word)].status
    ELSE "Unknown"

\* Positions in the precedence list of the cache headers a response has
C17_Present(h) == {k \in 1 .. Len(CACHE_HEADERS) : h[CACHE_HEADERS[k]] # None}

C17_First(h) == CHOOSE k \in C17_Present(h) : \A j \in C17_Present(h) : k <= j

\* The units whose response has been classified
C17_Classified == {ru \in Runs \X Units :
                    /\ unit[ru[1]][ru[2]].pc \in {"requested", "released"}
                    /\ unit[ru[1]][ru[2]].res # None}

\* C17: the classifier's result is decided by the first header of the precedence
\* list that the response has: it is the status of that header's value, Unknown
\* when the value is not one of the words, whatever the later headers are.
C17_FirstPresentDecides ==
    \A ru \in C17_Classified :
        LET h == unit[ru[1]][ru[2]].response_headers
        IN  C17_Present(h) # {} =>
                unit[ru[1]][ru[2]].cache_status =
                    Some(C17_StatusOf(h[CACHE_HEADERS[C17_First(h)]][1]))

\* C18: a response with none of the 7 cache headers has cache_status None; the
\* value of a cache header is matched against the 8 words whatever the case of
\* its letters, and every other value gives Unknown.
C18_WordsIgnoreCase ==
    \A ru \in C17_Classified :
        LET h == unit[ru[1]][ru[2]].response_headers
        IN  /\ C17_Present(h) = {} => unit[ru[1]][ru[2]].cache_status = None
            /\ \A k \in 1 .. Len(CACHE_HEADERS) :
                    C17_Present(h) = {k} =>
                        unit[ru[1]][ru[2]].cache_status =
                            Some(C17_StatusOf(h[CACHE_HEADERS[k]][1]))

\* The index (from 0) the claim gives for the percentile p of len latencies:
\* round(p/100 * (len - 1)), halves rounded up, clamped to [0, len - 1]
C19_Index(p, len) ==
    LET i == (2 * p * (len - 1) + 100) \div 200
    IN  IF i < 0 THEN 0 ELSE IF i > len - 1 THEN len - 1 ELSE i

\* v is the element at index i (from 0) of the ascending sort of the whole
\* latency history
C19_SortedAt(i, v) ==
    /\ \E k \in 1 .. Len(dash.histogram) : dash.histogram[k].ms = v
    /\ Cardinality({k \in 1 .. Len(dash.histogram) : dash.histogram[k].ms < v}) <= i
    /\ Cardinality({k \in 1 .. Len(dash.histogram) : dash.histogram[k].ms <= v}) > i

\* C19: once the chart of a non-empty latency history is drawn, the value of
\* each percentile p of 0, 10, 25, 50, 75, 90, 95, 99, 100 is the element of the
\* ascending-sorted whole history at index round(p/100 * (len - 1)) clamped to
\* [0, len - 1].
C19_PercentileOfHistory ==
    (dpc = "rx" /\ dash.histogram # <<>>) =>
        /\ Len(dash.bar_chart_data) = 9
        /\ \A k \in 1 .. 9 :
                C19_SortedAt(
                    C19_Index(<<0, 10, 25, 50, 75, 90, 95, 99, 100>>[k], Len(dash.histogram)),
                    dash.bar_chart_data[k])

\* The chart of the history 10, 20, 30, 40, 50 (the last a timeout, so the log
\* holds 6 entries): P0 = 10, P50 = 30, P100 = 50.
C19_Witness ==
    /\ dpc = "rx"
    /\ Latencies(dash) = <<10, 20, 30, 40, 50>>
    /\ Len(dash.requests) = 6
    /\ dash.bar_chart_data[1] = 10
    /\ dash.bar_chart_data[4] = 30
    /\ dash.bar_chart_data[9] = 50

RECURSIVE C20_Least(_)
C20_Least(xs) ==
    IF Len(xs) = 1 THEN xs[1]
    ELSE LET m == C20_Least(Tail(xs)) IN IF xs[1] < m THEN xs[1] ELSE m

RECURSIVE C20_Greatest(_)
C20_Greatest(xs) ==
    IF Len(xs) = 1 THEN xs[1]
    ELSE LET m == C20_Greatest(Tail(xs)) IN IF xs[1] > m THEN xs[1] ELSE m

\* C20: after any non-empty sequence of completion records, stats.min is the
\* least and stats.max the greatest of the millisecond durations of all the
\* records processed so far, records of 0 ms included.
C20_MinMaxOfAll ==
    arrived # <<>> =>
        LET ms == [k \in 1 .. Len(arrived) |-> arrived[k].duration]
        IN  dash.min = C20_Least(ms) /\ dash.max = C20_Greatest(ms)

\* The integer mean of the whole latency history
C21_Mean == Sum(Latencies(dash)) \div Len(dash.histogram)

\* The population variance of the whole latency history around its mean
C21_Variance ==
    Sum([k \in 1 .. Len(dash.histogram) |->
            (dash.histogram[k].ms - C21_Mean) * (dash.histogram[k].ms - C21_Mean)])
        \div Len(dash.histogram)

\* C21: after every render tick with a non-empty latency history, avg is the
\* integer mean of the whole history and std_dev is the integer square root of
\* the population variance of the history around that same avg.
C21_AvgAndStdDevOfTick ==
    (dpc = "rx" /\ dash.histogram # <<>>) =>
        /\ dash.avg = C21_Mean
        /\ dash.std_dev * dash.std_dev <= C21_Variance
        /\ (dash.std_dev + 1) * (dash.std_dev + 1) > C21_Variance

\* The records of unit u of run r that are queued or were processed
C22_Records(r, u) ==
    LET all == arrived \o rx
    IN  {k \in 1 .. Len(all) : all[k].id = <<r, u>>}

\* The timing pair of a probe of the run's URL: (0, 0) when the URL does not
\* parse, has no host or its host is not found
C22_Pair ==
    IF args.url \in {"h t", "/p", "down"} THEN <<0, 0>> ELSE <<2, 0>>

C23_ClosedChannelTolerated ==
    /\ [](/\ permits[0] + Cardinality(Held(0)) = args.concurrency
          /\ sup[0].pc = "loop" => (permits[0] > 0 \/ Held(0) # {})
          /\ rx = <<>> /\ sent_rx = 0)
    /\ [][\A u \in Units :
            /\ (unit[0][u].pc = "spawned" /\ unit'[0][u] # unit[0][u]) =>
                    /\ unit'[0][u].pc = "sent"
                    /\ permits' = permits
            /\ (unit[0][u].pc = "released" /\ unit'[0][u] # unit[0][u]) =>
                    /\ unit'[0][u].pc = "done"
                    /\ permits' = permits]_vars

\* Every unit of the restarted run has run to its end, the last one admitted on
\* the permit the first one released; the dashboard of the new run has seen none
\* of them.
C23_Witness ==
    /\ gen = 2 /\ ctl = "dashboard"
    /\ args.concurrency = 1
    /\ sup[0] = [pc |-> "done", i |-> MaxN]
    /\ \A u \in Units : unit[0][u].pc = "done" /\ trace[0][u] = C10_Order
    /\ permits[0] = 1
    /\ dash.sent = 0 /\ dash.count = 0 /\ arrived = <<>>

\* Units of run r that have been scheduled and have not ended
C24_InFlight(r) ==
    {u \in Units : unit[r][u].pc \in {"spawned", "sent", "requested", "released"}}

\* C24: the supervising task of a run has returned (and run() with it) only if
\* each of the args.number units has been scheduled; and once the dashboard of
\* the run counts args.number records, no unit of the run is in flight.
C24_ReturnsWhenAllScheduled ==
    \A r \in Runs :
        /\ outer[r] = "finished" => sup[r].pc = "done"
        /\ sup[r].pc = "done" =>
                /\ sup[r].i = args.number
                /\ \A u \in 1 .. args.number : unit[r][u].pc # "unspawned"
        /\ (ChannelOpen(r) /\ dash.count = args.number) =>
                /\ C24_InFlight(r) = {}
                /\ sup[r].pc = "done"

\* run() has returned while both units of the run are still in flight: the
\* dashboard has counted nothing yet
C24_Witness ==
    /\ args.number = 2
    /\ outer[0] = "finished" /\ sup[0].pc = "done"
    /\ C24_InFlight(0) = {1, 2}
    /\ ctl = "dashboard" /\ dash.count = 0

\* C25: whatever the body of the response, the unit builds its completion
\* record: no unit ends in the truncation of the body without having sent one.
C25_NoBodyEndsUnit ==
    \A r \in Runs, u \in Units :
        /\ unit[r][u].pc # "panicked"
        /\ unit[r][u].pc = "done" => C3_Count(trace[r][u], "record") = 1

\* C26: when a completion record has been processed, requests_per_second is
\* count / elapsed seconds (0 in the first second) and, after the first second,
\* bytes_per_second is the cumulative content_length / elapsed seconds, count
\* and cumulative content_length including the record just processed.
C26_RatesIncludeRecord ==
    [][arrived' # arrived =>
        /\ dash'.rps = IF dash'.secs = 0 THEN 0 ELSE dash'.count \div dash'.secs
        /\ dash'.secs > 0 => dash'.data = dash'.data_transfer \div dash'.secs]_vars

\* The records of seq that carry DNS times
C27_WithDns(seq) == SelectSeq(seq, LAMBDA stat : stat.dns_times # None)

\* The integer mean of component i of the DNS times of the records of seq
C27_Mean(seq, i) ==
    LET with == C27_WithDns(seq)
    IN  Sum([k \in 1 .. Len(with) |-> with[k].dns_times[1][i]]) \div Len(with)

\* C27: processing a record with dns_times appends one sample to each of the two
\* DNS sample lists and sets each running average to the integer mean of all the
\* samples of the run; processing a record without dns_times changes neither
\* list and neither average.
C27_DnsSamples ==
    [][arrived' # arrived =>
        LET stat == arrived'[Len(arrived')]
        IN  IF stat.dns_times # None
            THEN /\ dash'.total_dns_lookup =
                        Append(dash.total_dns_lookup, stat.dns_times[1][1])
                 /\ dash'.total_dns_resolution =
                        Append(dash.total_dns_resolution, stat.dns_times[1][2])
                 /\ Len(dash'.total_dns_lookup) = Len(C27_WithDns(arrived'))
                 /\ dash'.avg_dns_lookup = C27_Mean(arrived', 1)
                 /\ dash'.avg_dns_resolution = C27_Mean(arrived', 2)
            ELSE /\ dash'.total_dns_lookup = dash.total_dns_lookup
                 /\ dash'.total_dns_resolution = dash.total_dns_resolution
                 /\ dash'.avg_dns_lookup = dash.avg_dns_lookup
                 /\ dash'.avg_dns_resolution = dash.avg_dns_resolution]_vars

\* Samples (2, 0) and (5, 1), then a record without DNS times: the averages stay
\* 3 and 0
C27_Witness ==
    /\ Len(arrived) = 3
    /\ arrived[3].dns_times = None
    /\ dash.total_dns_lookup = <<2, 5>>
    /\ dash.total_dns_resolution = <<0, 1>>
    /\ dash.avg_dns_lookup = 3
    /\ dash.avg_dns_resolution = 0

\* C29: processing a record without status code changes neither the status-code
\* histogram nor the cumulative byte total nor success nor failed; processing a
\* record with a status code leaves timeouts unchanged and adds 1 to the bucket
\* of that status code and to no other.
C29_FrameOfRecord ==
    [][arrived' # arrived =>
        LET stat == arrived'[Len(arrived')]
        IN  IF stat.status_code = None
            THEN /\ dash'.status_codes = dash.status_codes
                 /\ dash'.data_transfer = dash.data_transfer
                 /\ dash'.success = dash.success
                 /\ dash'.failed = dash.failed
            ELSE /\ dash'.timeouts = dash.timeouts
                 /\ \A c \in StatusCodes :
                        dash'.status_codes[c] =
                            dash.status_codes[c] + IF c = stat.status_code[1] THEN 1 ELSE 0]_vars

\* A 200 of 100 bytes, a 404 of 7 bytes, then a record without status code
C29_Witness ==
    /\ Len(arrived) = 3
    /\ arrived[3].status_code = None
    /\ dash.status_codes[200] = 1 /\ dash.status_codes[404] = 1
    /\ dash.data_transfer = 107
    /\ dash.timeouts = 1 /\ dash.success = 1 /\ dash.failed = 1

\* The sum of the counts of the status-code histogram
RECURSIVE C30_Total(_, _)
C30_Total(codes, S) ==
    IF S = {} THEN 0
    ELSE LET c == CHOOSE x \in S : TRUE IN codes[c] + C30_Total(codes, S \ {c})

\* C30: count = success + failed + timeouts, the counts of the status-code
\* histogram sum to success + failed, and the latency history has count entries.
C30_CountersAgree ==
    /\ dash.count = dash.success + dash.failed + dash.timeouts
    /\ C30_Total(dash.status_codes, StatusCodes) = dash.success + dash.failed
    /\ Len(dash.histogram) = dash.count

\* One record of each kind after 104 records
C30_Witness ==
    /\ dash.count = 104
    /\ dash.timeouts > 0 /\ dash.success > 0 /\ dash.failed > 0
    /\ dash.status_codes[199] > 0 /\ dash.status_codes[299] > 0

\* The ids of the tests of the Config filed under key k, in declaration order
C28_Under(k) ==
    LET filed == SelectSeq(config, LAMBDA t : (IF t.depends_on = None THEN "ROOT"
                                                ELSE t.depends_on[1]) = k)
    IN  [i \in 1 .. Len(filed) |-> filed[i].id]

\* The keys under which the id x is listed in the plan p
C28_ListedUnder(p, x) == {k \in DOMAIN p : \E i \in 1 .. Len(p[k]) : p[k][i] = x}

\* C28: the plan lists every test id in exactly one list, under the key of its
\* depends_on or under ROOT when it has none, each list in declaration order; the
\* id of a test that no test depends on is not a key of the plan.
C28_PlanOfConfig ==
    plan # None =>
        LET p == plan[1]
        IN  /\ \A k \in DOMAIN p : p[k] = C28_Under(k)
            /\ \A i \in 1 .. Len(config) :
                    /\ Cardinality(C28_ListedUnder(p, config[i].id)) = 1
                    /\ (\A j \in 1 .. Len(config) :
                            config[j].depends_on # Some(config[i].id))
                          => config[i].id \notin DOMAIN p

\* C31: in every reachable state of a run, the SentEvents ever enqueued (queued
\* or already drained into stats.sent) and the CompletionRecords ever enqueued
\* (queued or already handed to update_stats) are each at most `number`, so a
\* unit that is about to send finds room in its channel whether or not the
\* aggregator has drained anything.
C31_SentEnqueued == dash.sent + sent_rx

C31_RecordsEnqueued == Len(arrived) + Len(rx)

C31_SendsNeverWait ==
    /\ C31_SentEnqueued <= args.number
    /\ C31_RecordsEnqueued <= args.number
    /\ \A r \in Runs, u \in Units :
            ChannelOpen(r) =>
                /\ unit[r][u].pc = "spawned" => sent_rx < Capacity(args)
                /\ unit[r][u].pc = "released" => Len(rx) < Capacity(args)

\* Nothing was ever drained and every unit of the run has sent its event and
\* its record: both channels hold `number` messages.
C31_Witness ==
    /\ args.number >= 2
    /\ dash.sent = 0 /\ arrived = <<>>
    /\ sent_rx = args.number
    /\ Len(rx) = args.number

\* C32: a completion record or SentEvent produced by a unit of run k is never
\* counted in the aggregate state of another run.  While a run's dashboard is
\* up, every record queued for it or already handed to update_stats comes from a
\* finished unit of that very run, the sent events queued or counted are those
\* of the units of that run, and count and the latency history hold nothing but
\* the records handed over, whatever the units of earlier runs still do.
C32_HasSent(r) == {u \in Units : C3_Count(trace[r][u], "sent") = 1}

C32_OfRun(rec, r) == rec.id[1] = r /\ unit[r][rec.id[2]].pc = "done"

C32_RunsAreSeparate ==
    ctl = "dashboard" =>
        /\ \A k \in 1 .. Len(arrived) : C32_OfRun(arrived[k], gen - 1)
        /\ \A k \in 1 .. Len(rx) : C32_OfRun(rx[k], gen - 1)
        /\ dash.sent + sent_rx = Cardinality(C32_HasSent(gen - 1))
        /\ dash.count = Len(arrived)
        /\ Len(dash.histogram) = Len(arrived)

\* After a restart the unit of the old run and the unit of the new run have both
\* sent their event and their record, and the new dashboard has counted one of
\* each.
C32_Witness ==
    /\ gen = 2 /\ ctl = "dashboard"
    /\ unit[0][1].pc = "done" /\ C3_Count(trace[0][1], "record") = 1
    /\ unit[1][1].pc = "done"
    /\ dash.count = 1 /\ dash.sent = 1
    /\ arrived[1].id = <<1, 1>>

\* C33: at every render tick, that is once the loop of Dashboard::run has drained
\* the completion records and then the sent events and is about to draw, sent is
\* at least count, whatever the units did between the two drains.
C33_SentCoversCount ==
    (ctl = "dashboard" /\ dpc = "draw") => dash.sent >= dash.count

\* A tick at which a record has been counted while another unit of the run has
\* sent its event and not yet its record.
C33_Witness ==
    /\ ctl = "dashboard" /\ dpc = "draw"
    /\ dash.count = 1
    /\ dash.sent = 2
    /\ \E u \in Units : unit[gen - 1][u].pc \in {"sent", "requested", "released"}

\* C34: in every reachable state of a run count <= number and sent <= number, so
\* the Remaining value number - count of render_stats never underflows and the
\* progress percentage count * 100 / number never exceeds 100.
C34_CountersWithinNumber ==
    /\ dash.count <= args.number
    /\ dash.sent <= args.number
    /\ Remaining(dash, args) >= 0
    /\ percent(dash, args) <= 100

\* Every record of a run of two has been counted: nothing remains, 100 percent.
C34_Witness ==
    /\ args.number = 2
    /\ dash.count = 2 /\ dash.sent = 2
    /\ Remaining(dash, args) = 0
    /\ percent(dash, args) = 100

\* C35 (as claimed): every configuration that validation accepts leads an
\* uninterrupted run to count = number.  Left aside are the runs that end for a
\* reason other than the configuration's numbers: a header or proxy that run()
\* refuses, a unit that panics on the response body.
C35_EndsOtherwise ==
    \/ \E r \in Runs : outer[r] = "failed"
    \/ \E r \in Runs, u \in Units : unit[r][u].pc = "panicked"

C35_AcceptedRunCompletes ==
    <>(\/ ctl = "exited"
       \/ C35_EndsOtherwise
       \/ ctl = "dashboard" /\ dash.count = args.number /\ args.number > 0)

\* C36: within one run final_duration is unset while count < number, is set by
\* the first frame drawn with count = number (to the time elapsed at that frame),
\* and never changes afterwards.
C36_FrameDrawn == dpc = "draw" /\ dpc' = "rx"

C36_FinalDurationSetOnce ==
    /\ [](dash.count < args.number => dash.final_duration = None)
    /\ [][/\ (C36_FrameDrawn /\ dash.count = args.number /\ dash.final_duration = None)
                => dash'.final_duration = Some(dash.secs)
          /\ (~C36_FrameDrawn \/ dash.count < args.number)
                => dash'.final_duration = dash.final_duration
          /\ dash.final_duration # None
                => dash'.final_duration = dash.final_duration]_vars

\* The duration was fixed at one second, the clock has moved on and a later frame
\* has been drawn.
C36_Witness ==
    /\ dash.count = args.number
    /\ dash.final_duration = Some(1)
    /\ dash.secs = 2
    /\ dpc = "rx"
    /\ Len(dash.label_storage) >= 2

\* C39 (as claimed): label_storage stays bounded over the render ticks: a frame
\* replaces the labels of the frame before, so the storage never holds more than
\* the 9 percentile labels, or the single No Data label while there is no latency.
C39_LabelsReplaced ==
    Len(dash.label_storage) <=
        (IF dash.histogram = <<>> THEN 1 ELSE Len(percentiles))

\* C37 (as claimed): in the test-tree view, for every configuration and after
\* any sequence of Up, Down, Left and Right, navigation never fails and the
\* selected index, when set, is the index of a row of the list as it is now.
\* Left aside are the configurations whose list cannot be built at all (C38).
C37_NavigationIsSafe ==
    tree # None =>
        LET items == build_items(tree[1])
        IN  items # Overflow =>
                /\ tree[1].failed = "no"
                /\ tree[1].selected # None => tree[1].selected[1] < Len(items)

\* The number of times x occurs in the sequence
C38_Times(seq, x) == Cardinality({i \in 1 .. Len(seq) : seq[i] = x})

\* No id is listed more often than there are tests with that id
C38_AtMostOnce(items) ==
    \A x \in TestIds : C38_Times(items, x) <= C38_Times(IdsOf(config), x)

\* C38 (as claimed): for every list of tests, duplicate ids and tests that depend
\* on themselves or on each other included, building the rows of the tree and
\* displaying the execution plan terminate, and each test is listed at most once.
C38_ListingsTerminate ==
    /\ printed # None =>
            /\ printed[1] # Overflow
            /\ C38_AtMostOnce(printed[1])
    /\ tree # None =>
            /\ tree[1].failed # "overflow"
            /\ build_items(tree[1]) # Overflow
            /\ C38_AtMostOnce(tree[1].visible_items)

====
